---- MODULE Spec2Model ----
(***************************************************************************)
(* The low-level IR optimizer of lib/Optimizer/IROptimizer.cpp: a linear   *)
(* stream of instructions over weights, activation allocations and tensor  *)
(* views, and the passes optimize() runs over it.                          *)
(*                                                                         *)
(* An instruction is a record [k, id, ty, ops, c]: its kind, the name of   *)
(* the value it defines (allocations and tensor views; "" otherwise), the  *)
(* type of that value, its operands <<value, operand kind>> and a payload  *)
(* (the constant of a splat).  The stream is the sequence of instructions; *)
(* the user list of a value is derived from the operands of the stream.    *)
(* assert() is modelled as compiled in: a failing assertion aborts.        *)
(***************************************************************************)
EXTENDS Integers, Sequences, FiniteSets, TLC

VARIABLES
  stream,              \* Module::getInstrs(): the instruction list
  mut,                 \* WeightVar::getMutability() of every weight
  pc,                  \* the statement of optimize() that runs next
  pos,                 \* the loop position of the pass in progress
  liveBuffers,         \* shareBuffers: the live set
  IntervalsMap,        \* copyPropagation: the live intervals it computed
  ErasedInstructions,  \* copyPropagation: positions of the copies to erase
  input,               \* the module optimize() was called on
  first,               \* the module the first call of optimize() returned
  run,                 \* 1 in the first call of optimize(), 2 in the second
  instrumentDebug,     \* the option instrument-debug
  before,              \* pc, pos, stream, mut, liveBuffers before the last step
  fired_,              \* Event::fired_
  mutex_,              \* Event::mutex_: the thread that holds it
  cond_,               \* Event::cond_: the threads that are blocked on it
  ip,                  \* the statement of signal() or wait() every thread is at
  calls,               \* the calls of signal() and wait() every thread has made
  signalled,           \* the calls of signal() that have returned true
  refused,             \* the calls of signal() that have returned false
  late,                \* the threads in a wait() that began after a signal() returned true
  blocked,             \* the threads whose last wait() has blocked on cond_
  waited               \* the threads whose last wait() has returned

eventVars == <<fired_, mutex_, cond_, ip, calls, signalled, refused, late, blocked, waited>>

vars == <<stream, mut, pc, pos, liveBuffers, IntervalsMap, ErasedInstructions,
          input, first, run, instrumentDebug, before,
          fired_, mutex_, cond_, ip, calls, signalled, refused, late, blocked, waited>>

-----------------------------------------------------------------------------
(* Values, types and instructions *)

Weights == {"W1", "W2", "W3"}
Allocs == {"A", "B", "C"}
NoValue == "null"
NoType == "-"

WeightType(w) == IF w = "W3" THEN "T2" ELSE "T1"
AllocType(a) == IF a = "C" THEN "T2" ELSE "T1"

Instr(k, id, ty, ops, c) == [k |-> k, id |-> id, ty |-> ty, ops |-> ops, c |-> c]

AllocActivation(a) == Instr("AllocActivation", a, AllocType(a), <<>>, 0)
DeallocActivation(a) == Instr("DeallocActivation", "", NoType, <<<<a, "Out">>>>, 0)
TensorView(v, src, ty) == Instr("TensorView", v, ty, <<<<src, "In">>>>, 0)
Splat(dest, c) == Instr("Splat", "", NoType, <<<<dest, "Out">>>>, c)
Copy(dest, src) == Instr("Copy", "", NoType, <<<<dest, "Out">>, <<src, "In">>>>, 0)
Reshape(dest, src) == Instr("Reshape", "", NoType, <<<<dest, "Out">>, <<src, "In">>>>, 0)
Transpose(dest, src) == Instr("Transpose", "", NoType, <<<<dest, "Out">>, <<src, "In">>>>, 0)
ElementAdd(dest, lhs, rhs) ==
  Instr("ElementAdd", "", NoType, <<<<dest, "Out">>, <<lhs, "In">>, <<rhs, "In">>>>, 0)
ElementMax(dest, lhs, rhs) ==
  Instr("ElementMax", "", NoType, <<<<dest, "Out">>, <<lhs, "In">>, <<rhs, "In">>>>, 0)
InsertTensor(dest, src) ==
  Instr("InsertTensor", "", NoType, <<<<dest, "InOut">>, <<src, "In">>>>, 0)
PoolMax(dest, src) == Instr("PoolMax", "", NoType, <<<<dest, "Out">>, <<src, "In">>>>, 0)
PoolMaxWithXY(dest, src, xy) ==
  Instr("PoolMaxWithXY", "", NoType, <<<<dest, "Out">>, <<src, "In">>, <<xy, "Out">>>>, 0)
SoftMax(dest, src, sel) ==
  Instr("SoftMax", "", NoType, <<<<dest, "Out">>, <<src, "In">>, <<sel, "In">>>>, 0)
SoftMaxWithE(dest, src, e, sel) ==
  Instr("SoftMaxWithE", "", NoType,
        <<<<dest, "Out">>, <<src, "In">>, <<e, "InOut">>, <<sel, "In">>>>, 0)
DebugPrint(src) == Instr("DebugPrint", "", NoType, <<<<src, "In">>>>, 0)

isInplaceOp(I, dstIdx, srcIdx) ==
  /\ I.k \in {"ElementAdd", "ElementMax"}
  /\ dstIdx = 1
  /\ srcIdx \in {2, 3}

-----------------------------------------------------------------------------
(* The instruction list and the use lists *)

Max(S) == CHOOSE x \in S : \A y \in S : y <= x
Min(S) == CHOOSE x \in S : \A y \in S : x <= y

RemoveAt(p, i) == SubSeq(p, 1, i - 1) \o SubSeq(p, i + 1, Len(p))
InsertAt(p, i, x) == SubSeq(p, 1, i - 1) \o <<x>> \o SubSeq(p, i, Len(p))
IndexOf(p, x) == CHOOSE i \in DOMAIN p : p[i] = x

ViewDef(s, v) == {i \in DOMAIN s : s[i].k = "TensorView" /\ s[i].id = v}

RECURSIVE getOrigin(_, _)
getOrigin(s, v) ==
  IF v \in Weights \cup Allocs \/ ViewDef(s, v) = {}
  THEN v
  ELSE getOrigin(s, s[CHOOSE i \in ViewDef(s, v) : TRUE].ops[1][1])

getAllocationOrigin(s, v) ==
  LET o == getOrigin(s, v) IN IF o \in Allocs THEN o ELSE NoValue

TypeOf(s, v) ==
  IF v \in Weights THEN WeightType(v)
  ELSE IF v \in Allocs THEN AllocType(v)
  ELSE IF ViewDef(s, v) = {} THEN NoType
  ELSE s[CHOOSE i \in ViewDef(s, v) : TRUE].ty

\* The use list of v: the <<instruction, operand index>> pairs that reference v.
Uses(s, v) ==
  UNION {{<<i, j>> : j \in {j \in DOMAIN s[i].ops : s[i].ops[j][1] = v}} : i \in DOMAIN s}
getNumUsers(s, v) == Cardinality(Uses(s, v))

setOperand(I, j, v) == [I EXCEPT !.ops[j] = <<v, @[2]>>]

eraseInstructions(s, E) ==
  LET RECURSIVE keep(_)
      keep(i) == IF i > Len(s) THEN <<>>
                 ELSE (IF i \in E THEN <<>> ELSE <<s[i]>>) \o keep(i + 1)
  IN keep(1)

-----------------------------------------------------------------------------
(* hoistDealloc *)

\* lastUser that takes the direct uses only, not those through tensor views.
lastDirectUser(s, a) ==
  LET P == {i \in DOMAIN s :
              \/ s[i].k = "AllocActivation" /\ s[i].id = a
              \/ /\ s[i].k \notin {"AllocActivation", "DeallocActivation"}
                 /\ \E j \in DOMAIN s[i].ops : s[i].ops[j][1] = a}
  IN IF P = {} THEN 0 ELSE Max(P)

lastUser(s, a) ==
  LET P == {i \in DOMAIN s :
              \/ s[i].k = "AllocActivation" /\ s[i].id = a
              \/ /\ s[i].k \notin {"AllocActivation", "DeallocActivation"}
                 /\ \E j \in DOMAIN s[i].ops : getAllocationOrigin(s, s[i].ops[j][1]) = a}
  IN IF P = {} THEN 0 ELSE Max(P)

\* p holds the instructions of s, named by their position in s, in the order
\* the list has reached; i is the position of the loop's iterator in p.
RECURSIVE hoistLoop(_, _, _)
hoistLoop(s, p, i) ==
  IF i > Len(p) THEN p
  ELSE LET curr == p[i]
           nxt == IF i < Len(p) THEN p[i + 1] ELSE 0
           where == lastUser(s, getOrigin(s, s[curr].ops[1][1]))
       IN IF s[curr].k # "DeallocActivation" THEN hoistLoop(s, p, i + 1)
          ELSE IF where = 0 \/ IndexOf(p, where) + 1 = i THEN hoistLoop(s, p, i + 1)
          ELSE LET q == RemoveAt(p, i)
                   r == InsertAt(q, IndexOf(q, where) + 1, curr)
               IN hoistLoop(s, r, IF nxt = 0 THEN Len(r) + 1 ELSE IndexOf(r, nxt))

hoistDealloc(s) ==
  LET p == hoistLoop(s, [i \in DOMAIN s |-> i], 1)
  IN [i \in DOMAIN s |-> s[p[i]]]

-----------------------------------------------------------------------------
(* sinkAllocas *)

IsAllocInstr(I) == I.k = "AllocActivation"
NotAllocInstr(I) == I.k # "AllocActivation"

\* sinkOperands that does not take an inserted allocation out of the set.
RECURSIVE sinkEachOperand(_, _, _)
sinkEachOperand(ops, j, allocs) ==
  IF j > Len(ops) \/ allocs = {} THEN <<>>
  ELSE IF ops[j][1] \in allocs
       THEN <<ops[j][1]>> \o sinkEachOperand(ops, j + 1, allocs)
       ELSE sinkEachOperand(ops, j + 1, allocs)

\* The allocations among the operands ops[j..] that are still in the set,
\* in operand order, each once.
RECURSIVE sinkOperands(_, _, _)
sinkOperands(ops, j, allocs) ==
  IF j > Len(ops) \/ allocs = {} THEN <<>>
  ELSE IF ops[j][1] \in allocs
       THEN <<ops[j][1]>> \o sinkOperands(ops, j + 1, allocs \ {ops[j][1]})
       ELSE sinkOperands(ops, j + 1, allocs)

RECURSIVE sinkLoop(_, _, _)
sinkLoop(rest, i, allocs) ==
  IF i > Len(rest) THEN [s |-> <<>>, left |-> allocs]
  ELSE IF allocs = {} THEN [s |-> SubSeq(rest, i, Len(rest)), left |-> {}]
  ELSE LET here == sinkOperands(rest[i].ops, 1, allocs)
           tail == sinkLoop(rest, i + 1, allocs \ {here[j] : j \in DOMAIN here})
       IN [s |-> [j \in DOMAIN here |-> AllocActivation(here[j])] \o <<rest[i]>> \o tail.s,
           left |-> tail.left]

\* [s: the stream after the pass, left: the allocas the pass did not insert]
sinkAllocas(s) ==
  sinkLoop(SelectSeq(s, NotAllocInstr), 1,
           {s[i].id : i \in {i \in DOMAIN s : IsAllocInstr(s[i])}})

-----------------------------------------------------------------------------
(* deleteDeadAllocs *)

deadViews(s) == {i \in DOMAIN s : s[i].k = "TensorView" /\ getNumUsers(s, s[i].id) = 0}
deadDeallocs(s) ==
  {i \in DOMAIN s : s[i].k = "DeallocActivation" /\ getNumUsers(s, s[i].ops[1][1]) < 2}
deadAllocs(s) == {i \in DOMAIN s : s[i].k = "AllocActivation" /\ getNumUsers(s, s[i].id) < 2}

deleteDeadAllocs(s) ==
  LET s1 == eraseInstructions(s, deadViews(s))
      s2 == eraseInstructions(s1, deadDeallocs(s1))
  IN eraseInstructions(s2, deadAllocs(s2))

-----------------------------------------------------------------------------
(* replaceAllNonDeallocUsersWith *)

replaceAllNonDeallocUsersWith(s, val, with) ==
  [i \in DOMAIN s |->
     IF s[i].k = "DeallocActivation" THEN s[i]
     ELSE [s[i] EXCEPT !.ops = [j \in DOMAIN @ |->
                                  IF @[j][1] = val THEN <<with, @[j][2]>> ELSE @[j]]]]

-----------------------------------------------------------------------------
(* shareBuffers *)

\* The first loop over the operands of I: <out> buffers leave the live set.
RECURSIVE killOutputs(_, _, _, _, _)
killOutputs(s, I, op, live, outBuffers) ==
  IF op > Len(I.ops) THEN live
  ELSE LET ai == getAllocationOrigin(s, I.ops[op][1])
           kind == I.ops[op][2]
       IN IF ai = NoValue THEN killOutputs(s, I, op + 1, live, outBuffers)
          ELSE IF kind = "Out"
          THEN IF ai \in live
               THEN killOutputs(s, I, op + 1, live \ {ai}, outBuffers \cup {ai})
               ELSE killOutputs(s, I, op + 1, live, outBuffers)
          ELSE IF kind = "InOut" \/ (kind = "In" /\ ai \in outBuffers)
          THEN killOutputs(s, I, op + 1, live \cup {ai}, outBuffers)
          ELSE killOutputs(s, I, op + 1, live, outBuffers)

originOrSelf(s, v) ==
  IF getAllocationOrigin(s, v) = NoValue THEN v ELSE getAllocationOrigin(s, v)

RECURSIVE tryToShareBuffersFrom(_, _, _, _, _)
tryToShareBuffersFrom(live, s, i, fst, snd) ==
  IF fst > Len(s[i].ops) THEN s
  ELSE IF snd > Len(s[i].ops) THEN tryToShareBuffersFrom(live, s, i, fst + 1, fst + 2)
  ELSE LET dest == originOrSelf(s, s[i].ops[fst][1])
           src == originOrSelf(s, s[i].ops[snd][1])
       IN IF TypeOf(s, dest) # TypeOf(s, src) \/ dest = src
          THEN tryToShareBuffersFrom(live, s, i, fst, snd + 1)
          ELSE IF ~isInplaceOp(s[i], fst, snd)
          THEN tryToShareBuffersFrom(live, s, i, fst, snd + 1)
          ELSE IF dest \notin live /\ src \notin live
          THEN replaceAllNonDeallocUsersWith(s, dest, src)
          ELSE tryToShareBuffersFrom(live, s, i, fst, snd + 1)

\* tryToShareBuffersForInstr without the test of the live set.
tryToShareLiveBuffersForInstr(live, s, i) == tryToShareBuffersFrom({}, s, i, 1, 2)

tryToShareBuffersForInstr(live, s, i) == tryToShareBuffersFrom(live, s, i, 1, 2)

\* The last loop over the operands of I: its inputs enter the live set.
reviveInputs(s, I, live) ==
  live \cup {getAllocationOrigin(s, I.ops[op][1]) :
               op \in {op \in DOMAIN I.ops :
                         /\ getAllocationOrigin(s, I.ops[op][1]) # NoValue
                         /\ I.ops[op][2] # "Out"}}

-----------------------------------------------------------------------------
(* getSingleWriter, makeWeightsConst *)

Writers(s, v) ==
  {u \in Uses(s, v) : s[u[1]].k # "DeallocActivation" /\ s[u[1]].ops[u[2]][2] # "In"}

\* getSingleWriter that returns the first writer when there are several.
getFirstWriter(s, v) ==
  IF Writers(s, v) = {} THEN 0 ELSE Min({u[1] : u \in Writers(s, v)})

\* The position of the single writer of v, 0 for nullptr.
getSingleWriter(s, v) ==
  IF Cardinality(Writers(s, v)) = 1 THEN (CHOOSE u \in Writers(s, v) : TRUE)[1] ELSE 0

\* makeWeightsConst without the search for a writer.
allWeightsConst(s) == [W \in Weights |-> "Constant"]

\* makeWeightsConst that takes an InOut operand for a read.
makeUnassignedWeightsConst(s) ==
  [W \in Weights |->
     IF \A u \in Uses(s, W) : s[u[1]].ops[u[2]][2] # "Out" THEN "Constant" ELSE "Mutable"]

makeWeightsConst(s) ==
  [W \in Weights |->
     IF \A u \in Uses(s, W) : s[u[1]].ops[u[2]][2] = "In" THEN "Constant" ELSE "Mutable"]

-----------------------------------------------------------------------------
(* calculateLiveIntervals: intervals are <<begin, end>> over instruction
   numbers that start at 0 *)

\* The memory location an operand is tracked under, NoValue for none.
Location(m, op) ==
  IF op \in Allocs THEN op
  ELSE IF op \in Weights /\ m[op] # "Constant" THEN op
  ELSE NoValue

Repeat(x, n) == [i \in 1 .. n |-> x]
KindCount(I, loc, kind) ==
  Cardinality({j \in DOMAIN I.ops : I.ops[j][1] = loc /\ I.ops[j][2] = kind})

\* The operand kinds under which I references loc, in the order of the
\* operands of I.
RECURSIVE UnsortedOperandsFrom(_, _, _)
UnsortedOperandsFrom(I, loc, j) ==
  IF j > Len(I.ops) THEN <<>>
  ELSE (IF I.ops[j][1] = loc THEN <<I.ops[j][2]>> ELSE <<>>) \o UnsortedOperandsFrom(I, loc, j + 1)
UnsortedOperands(I, loc) == UnsortedOperandsFrom(I, loc, 1)

\* The operand kinds under which I references loc, as std::sort orders them.
SortedOperands(I, loc) ==
  Repeat("In", KindCount(I, loc, "In")) \o Repeat("InOut", KindCount(I, loc, "InOut"))
    \o Repeat("Out", KindCount(I, loc, "Out"))

\* The loop over the operands without the extension of the last interval.
liveOperandsNoExtension(ivs, instIdx, kinds) ==
  IF kinds = <<>> THEN ivs
  ELSE IF ivs = <<>> THEN <<<<instIdx, instIdx>>>>
  ELSE IF \E n \in DOMAIN kinds : kinds[n] = "Out" THEN Append(ivs, <<instIdx, instIdx>>)
  ELSE ivs

RECURSIVE liveOperands(_, _, _)
liveOperands(ivs, instIdx, kinds) ==
  IF kinds = <<>> THEN ivs
  ELSE IF ivs = <<>> THEN liveOperands(<<<<instIdx, instIdx>>>>, instIdx, Tail(kinds))
  ELSE LET opKind == Head(kinds)
           back == ivs[Len(ivs)]
           ext == IF opKind # "Out" \/ back[2] # back[1]
                  THEN [ivs EXCEPT ![Len(ivs)] = <<back[1], instIdx>>]
                  ELSE ivs
       IN liveOperands(IF opKind = "Out" THEN Append(ext, <<instIdx, instIdx>>) ELSE ext,
                       instIdx, Tail(kinds))

\* The instructions before position i that are no deallocations.
NonDeallocsBefore(s, i) ==
  Cardinality({n \in 1 .. (i - 1) : s[n].k # "DeallocActivation"})

\* The loop over the instructions with an index that a deallocation does
\* not advance.
RECURSIVE liveInstrsSkippingDeallocs(_, _, _, _)
liveInstrsSkippingDeallocs(s, loc, i, ivs) ==
  IF i > Len(s) THEN ivs
  ELSE IF s[i].k = "DeallocActivation" THEN liveInstrsSkippingDeallocs(s, loc, i + 1, ivs)
  ELSE liveInstrsSkippingDeallocs(s, loc, i + 1,
         liveOperands(ivs, NonDeallocsBefore(s, i), SortedOperands(s[i], loc)))

RECURSIVE liveInstrs(_, _, _, _)
liveInstrs(s, loc, i, ivs) ==
  IF i > Len(s) THEN ivs
  ELSE IF s[i].k = "DeallocActivation" THEN liveInstrs(s, loc, i + 1, ivs)
  ELSE liveInstrs(s, loc, i + 1, liveOperands(ivs, i - 1, SortedOperands(s[i], loc)))

calculateLiveIntervals(s, m) ==
  [loc \in Allocs \cup Weights |->
     LET ivs == IF Location(m, loc) = NoValue THEN <<>> ELSE liveInstrs(s, loc, 1, <<>>)
     IN IF loc \in Weights /\ ivs # <<>>
        THEN [ivs EXCEPT ![Len(ivs)] = <<@[1], Len(s)>>]
        ELSE ivs]

\* The assertion on the first reference of every location.
FirstReference(s, loc) ==
  Min({i \in DOMAIN s : s[i].k # "DeallocActivation" /\ SortedOperands(s[i], loc) # <<>>})
firstReferenceIsWrite(s, m) ==
  \A loc \in Allocs \cup Weights :
    (Location(m, loc) # NoValue /\ liveInstrs(s, loc, 1, <<>>) # <<>>) =>
      LET I == s[FirstReference(s, loc)]
      IN \/ I.k = "TensorView"
         \/ loc \in Weights
         \/ Head(SortedOperands(I, loc)) \in {"Out", "InOut"}

IntervalsOf(map, v) == IF v \in DOMAIN map THEN map[v] ELSE <<>>

\* getEnclosingInterval over half-open intervals [first, second).
getEnclosingHalfOpenInterval(LiveIntervals, instIdx) ==
  LET C == {n \in DOMAIN LiveIntervals :
              LiveIntervals[n][1] <= instIdx /\ instIdx < LiveIntervals[n][2]}
  IN IF C = {} THEN 0 ELSE Min(C)

\* The position in the list of the interval that covers instIdx, 0 for end().
getEnclosingInterval(LiveIntervals, instIdx) ==
  LET C == {n \in DOMAIN LiveIntervals :
              LiveIntervals[n][1] <= instIdx /\ instIdx <= LiveIntervals[n][2]}
  IN IF C = {} THEN 0 ELSE Min(C)

isEnclosedInside(LHS, RHS) == LHS[1] < RHS[1] /\ RHS[2] <= LHS[2]

\* [s: the stream after the replacement, changed: the size of ChangedInstrs]
RECURSIVE replaceAllUsesFrom(_, _, _, _, _, _)
replaceAllUsesFrom(s, val, with, I, i, changed) ==
  IF i > Len(s) \/ i - 1 > I[2] THEN [s |-> s, changed |-> changed]
  ELSE IF i - 1 < I[1] THEN replaceAllUsesFrom(s, val, with, I, i + 1, changed)
  ELSE LET hit == {j \in DOMAIN s[i].ops :
                     /\ s[i].ops[j][1] = val
                     /\ ~(i - 1 = I[1] /\ s[i].ops[j][2] # "Out")}
           new == [s[i] EXCEPT !.ops = [j \in DOMAIN @ |->
                                          IF j \in hit THEN <<with, @[j][2]>> ELSE @[j]]]
       IN replaceAllUsesFrom([s EXCEPT ![i] = new], val, with, I, i + 1,
                             changed + Cardinality(hit))

\* replaceAllUsesWith that leaves the instruction at which the interval
\* begins as it is.
replaceAllUsesAfterBegin(s, val, with, I) ==
  replaceAllUsesFrom(s, val, with, <<I[1] + 1, I[2]>>, 1, 0)

replaceAllUsesWith(s, val, with, I) == replaceAllUsesFrom(s, val, with, I, 1, 0)

-----------------------------------------------------------------------------
(* copyPropagation: one iteration of its loop, at the copy at position cur
   (instruction number cur - 1).
   [s: the stream after it, erase: whether the copy joins ErasedInstructions,
    ok: whether the assertions held] *)

copyPropagationWeight(s, m, cur) ==
  LET Src == s[cur].ops[2][1]
      Dest == s[cur].ops[1][1]
  IN IF m[Src] = "Mutable" \/ getSingleWriter(s, Dest) # cur \/ Dest \in Weights
     THEN [s |-> s, erase |-> FALSE, ok |-> TRUE]
     ELSE [s |-> replaceAllNonDeallocUsersWith(s, Dest, Src), erase |-> TRUE, ok |-> Dest # Src]

copyPropagationAlloc(s, map, cur) ==
  LET Src == s[cur].ops[2][1]
      Dest == s[cur].ops[1][1]
      SrcIntervals == IntervalsOf(map, Src)
      DestIntervals == IntervalsOf(map, Dest)
      SrcInterval == getEnclosingInterval(SrcIntervals, cur - 1)
      DestInterval == getEnclosingInterval(DestIntervals, cur - 1)
      skip == [s |-> s, erase |-> FALSE, ok |-> TRUE]
  IN IF SrcIntervals = <<>> \/ DestIntervals = <<>> THEN skip
     ELSE IF SrcInterval = 0 THEN skip
     ELSE IF DestInterval = 0 THEN skip
     ELSE LET SI == SrcIntervals[SrcInterval]
              DI == DestIntervals[DestInterval]
              canPropagate == SI[2] <= DI[1] \/ isEnclosedInside(SI, DI)
              r == replaceAllUsesWith(s, Src, Dest, SI)
          IN IF ~canPropagate THEN skip
             ELSE [s |-> r.s, erase |-> TRUE,
                   ok |-> r.changed > 0 /\ r.s[cur].ops[2][1] = r.s[cur].ops[1][1]]

copyPropagation(s, m, map, cur) ==
  IF s[cur].k # "Copy" THEN [s |-> s, erase |-> FALSE, ok |-> TRUE]
  ELSE IF TypeOf(s, s[cur].ops[2][1]) # TypeOf(s, s[cur].ops[1][1])
  THEN [s |-> s, erase |-> FALSE, ok |-> FALSE]
  ELSE IF s[cur].ops[2][1] \in Weights THEN copyPropagationWeight(s, m, cur)
  ELSE copyPropagationAlloc(s, map, cur)

-----------------------------------------------------------------------------
(* eliminateDeadStores: read is the set of locations whose lastSeenRead_ is
   set *)

\* The loop over the operand writes of I.
RECURSIVE processWrites(_, _, _, _)
processWrites(s, I, op, st) ==
  IF op > Len(I.ops) THEN st
  ELSE LET OpOrigin == getOrigin(s, I.ops[op][1])
       IN IF I.ops[op][2] # "In"
          THEN processWrites(s, I, op + 1,
                 [read |-> st.read \ {OpOrigin},
                  NumMutatedOperands |-> st.NumMutatedOperands + 1,
                  NumNonReadMutatedOperands |->
                    st.NumNonReadMutatedOperands + (IF OpOrigin \in st.read THEN 0 ELSE 1)])
          ELSE processWrites(s, I, op + 1, st)

\* processReads that takes the In operands only.
processInReads(s, I, read) ==
  read \cup {getOrigin(s, I.ops[op][1]) : op \in {op \in DOMAIN I.ops : I.ops[op][2] = "In"}}

processReads(s, I, read) ==
  read \cup {getOrigin(s, I.ops[op][1]) : op \in {op \in DOMAIN I.ops : I.ops[op][2] # "Out"}}

RECURSIVE deadStores(_, _, _)
deadStores(s, i, read) ==
  IF i = 0 THEN {}
  ELSE IF s[i].k \in {"DeallocActivation", "AllocActivation", "TensorView"}
  THEN deadStores(s, i - 1, read)
  ELSE LET st == processWrites(s, s[i], 1,
                   [read |-> read, NumMutatedOperands |-> 0, NumNonReadMutatedOperands |-> 0])
       IN IF st.NumMutatedOperands > 0
             /\ st.NumMutatedOperands = st.NumNonReadMutatedOperands
          THEN {i} \cup deadStores(s, i - 1, st.read)
          ELSE deadStores(s, i - 1, processReads(s, s[i], st.read))

\* eliminateDeadStores without the fake last read of the weights.
eliminateUnreadStores(s) == eraseInstructions(s, deadStores(s, Len(s), {}))

eliminateDeadStores(s) == eraseInstructions(s, deadStores(s, Len(s), Weights))

-----------------------------------------------------------------------------
(* performPeepholeOptimizations: one iteration of the loop, at position pos.
   [s: the stream after it, it: the position the iterator is left at] *)

FreshNames == <<"t1", "t2", "t3", "t4", "t5", "t6", "t7", "t8">>
FreshName(s) ==
  LET used == {s[i].id : i \in DOMAIN s}
                \cup UNION {{s[i].ops[j][1] : j \in DOMAIN s[i].ops} : i \in DOMAIN s}
  IN FreshNames[Min({n \in DOMAIN FreshNames : FreshNames[n] \notin used})]

ReplaceAt(s, i, new) == SubSeq(s, 1, i - 1) \o new \o SubSeq(s, i + 1, Len(s))

peepholePoolMaxWithXY(s, cur) ==
  LET PMI == s[cur]
      SrcXY == PMI.ops[3][1]
  IN IF SrcXY \notin Allocs \/ getNumUsers(s, SrcXY) # 2
     THEN [s |-> s, it |-> cur + 1]
     ELSE [s |-> ReplaceAt(s, cur, <<PoolMax(PMI.ops[1][1], PMI.ops[2][1])>>), it |-> cur]

peepholeSoftMaxWithE(s, cur) ==
  LET SMI == s[cur]
      E == SMI.ops[3][1]
      isUsedE == \E U \in Uses(s, getOrigin(s, E)) :
                   s[U[1]].ops[U[2]][2] # "Out" /\ U[1] # cur
  IN IF isUsedE
     THEN [s |-> s, it |-> cur + 1]
     ELSE [s |-> ReplaceAt(s, cur, <<SoftMax(SMI.ops[1][1], SMI.ops[2][1], SMI.ops[4][1])>>),
           it |-> cur]

\* peepholeReshape that goes on behind the instructions it created.
peepholeReshapeUnvisited(s, cur) ==
  LET RI == s[cur]
      TVI == TensorView(FreshName(s), RI.ops[2][1], TypeOf(s, RI.ops[1][1]))
      CI == Copy(RI.ops[1][1], TVI.id)
  IN [s |-> ReplaceAt(s, cur, <<TVI, CI>>), it |-> cur + 2]

peepholeReshape(s, cur) ==
  LET RI == s[cur]
      TVI == TensorView(FreshName(s), RI.ops[2][1], TypeOf(s, RI.ops[1][1]))
      CI == Copy(RI.ops[1][1], TVI.id)
  IN [s |-> ReplaceAt(s, cur, <<TVI, CI>>), it |-> cur]

peepholeTranspose(s, cur) ==
  LET TI == s[cur]
      Src == TI.ops[2][1]
      Dest == TI.ops[1][1]
      W == getSingleWriter(s, Src)
  IN IF W # 0 /\ s[W].k = "Splat"
     THEN IF TypeOf(s, Src) # TypeOf(s, Dest)
          THEN LET TVI == TensorView(FreshName(s), Src, TypeOf(s, Dest))
               IN [s |-> ReplaceAt(s, cur, <<TVI, Copy(Dest, TVI.id)>>), it |-> cur + 1]
          ELSE [s |-> ReplaceAt(s, cur, <<Copy(Dest, Src)>>), it |-> cur]
     ELSE [s |-> s, it |-> cur + 1]

\* peepholeElementMax that swaps the operands when either of them, and not
\* the other, is written by a splat alone.
peepholeElementMaxEitherSide(s, cur) ==
  LET EM == s[cur]
      LHS == EM.ops[2][1]
      RHS == EM.ops[3][1]
      WLHS == getSingleWriter(s, LHS)
      WRHS == getSingleWriter(s, RHS)
      splatL == WLHS # 0 /\ s[WLHS].k = "Splat"
      splatR == WRHS # 0 /\ s[WRHS].k = "Splat"
  IN IF splatL = splatR THEN [s |-> s, it |-> cur + 1]
     ELSE [s |-> ReplaceAt(s, cur, <<ElementMax(EM.ops[1][1], RHS, LHS)>>), it |-> cur]

peepholeElementMax(s, cur) ==
  LET EM == s[cur]
      LHS == EM.ops[2][1]
      RHS == EM.ops[3][1]
      WLHS == getSingleWriter(s, LHS)
      WRHS == getSingleWriter(s, RHS)
  IN IF WLHS = 0 THEN [s |-> s, it |-> cur + 1]
     ELSE IF s[WLHS].k # "Splat" THEN [s |-> s, it |-> cur + 1]
     ELSE IF WRHS # 0 /\ s[WRHS].k = "Splat" THEN [s |-> s, it |-> cur + 1]
     ELSE [s |-> ReplaceAt(s, cur, <<ElementMax(EM.ops[1][1], RHS, LHS)>>), it |-> cur]

peepholeTensorView(s, cur) ==
  LET TV == s[cur]
  IN IF TV.ty = TypeOf(s, TV.ops[1][1])
     THEN [s |-> replaceAllNonDeallocUsersWith(s, TV.id, TV.ops[1][1]), it |-> cur + 1]
     ELSE [s |-> s, it |-> cur + 1]

peepholeCopy(s, cur) ==
  LET CI == s[cur]
  IN IF getOrigin(s, CI.ops[2][1]) = getOrigin(s, CI.ops[1][1])
     THEN [s |-> ReplaceAt(s, cur, <<>>), it |-> cur]
     ELSE [s |-> s, it |-> cur + 1]

performPeepholeOptimizations(s, cur) ==
  CASE s[cur].k = "PoolMaxWithXY" -> peepholePoolMaxWithXY(s, cur)
    [] s[cur].k = "SoftMaxWithE" -> peepholeSoftMaxWithE(s, cur)
    [] s[cur].k = "Reshape" -> peepholeReshape(s, cur)
    [] s[cur].k = "Transpose" -> peepholeTranspose(s, cur)
    [] s[cur].k = "ElementMax" -> peepholeElementMax(s, cur)
    [] s[cur].k = "TensorView" -> peepholeTensorView(s, cur)
    [] s[cur].k = "Copy" -> peepholeCopy(s, cur)
    [] OTHER -> [s |-> s, it |-> cur + 1]

-----------------------------------------------------------------------------
(* performDebugInstrumentation *)

\* dumpOperands that takes the operands of the given kind instead of the
\* others.
RECURSIVE dumpOperandsOf(_, _, _)
dumpOperandsOf(I, op, kind) ==
  IF op > Len(I.ops) THEN <<>>
  ELSE (IF I.ops[op][2] = kind THEN <<DebugPrint(I.ops[op][1])>> ELSE <<>>)
         \o dumpOperandsOf(I, op + 1, kind)

\* The DebugPrints of the operands of I whose kind is not the given one.
RECURSIVE dumpOperands(_, _, _)
dumpOperands(I, op, kind) ==
  IF op > Len(I.ops) THEN <<>>
  ELSE (IF I.ops[op][2] # kind THEN <<DebugPrint(I.ops[op][1])>> ELSE <<>>)
         \o dumpOperands(I, op + 1, kind)

RECURSIVE instrumentFrom(_, _)
instrumentFrom(s, i) ==
  IF i > Len(s) THEN <<>>
  ELSE IF s[i].k \in {"DebugPrint", "AllocActivation", "DeallocActivation"}
  THEN <<s[i]>> \o instrumentFrom(s, i + 1)
  ELSE dumpOperands(s[i], 1, "Out") \o <<s[i]>> \o dumpOperands(s[i], 1, "In")
         \o instrumentFrom(s, i + 1)

performDebugInstrumentation(s, enabled) == IF ~enabled THEN s ELSE instrumentFrom(s, 1)

-----------------------------------------------------------------------------
(* What a stream computes: the content of every weight and allocation as a
   term over the initial contents of the weights.  An allocation holds no
   defined content outside its alloc .. dealloc range. *)

Undef == <<"undef">>
InitialContent == [v \in Weights \cup Allocs |-> IF v \in Weights THEN <<"init", v>> ELSE Undef]

execute(s, I, c) ==
  LET loc(j) == getOrigin(s, I.ops[j][1])
      at(j) == IF loc(j) \in DOMAIN c THEN c[loc(j)] ELSE Undef
      put(d, j, t) == IF loc(j) \in DOMAIN d THEN [d EXCEPT ![loc(j)] = t] ELSE d
  IN CASE I.k = "AllocActivation" -> [c EXCEPT ![I.id] = Undef]
       [] I.k = "DeallocActivation" -> put(c, 1, Undef)
       [] I.k = "Splat" -> put(c, 1, <<"splat", I.c>>)
       [] I.k \in {"Copy", "Reshape"} -> put(c, 1, at(2))
       [] I.k = "Transpose" ->
            put(c, 1, IF at(2)[1] = "splat" THEN at(2) ELSE <<"transpose", at(2)>>)
       [] I.k = "ElementAdd" -> put(c, 1, <<"add", at(2), at(3)>>)
       [] I.k = "ElementMax" -> put(c, 1, <<"max", at(2), at(3)>>)
       [] I.k = "InsertTensor" -> put(c, 1, <<"insert", at(1), at(2)>>)
       [] I.k = "PoolMax" -> put(c, 1, <<"pool", at(2)>>)
       [] I.k = "PoolMaxWithXY" -> put(put(c, 1, <<"pool", at(2)>>), 3, <<"xy", at(2)>>)
       [] I.k = "SoftMax" -> put(c, 1, <<"softmax", at(2), at(3)>>)
       [] I.k = "SoftMaxWithE" ->
            put(put(c, 1, <<"softmax", at(2), at(4)>>), 3, <<"e", at(3), at(2)>>)
       [] OTHER -> c

RECURSIVE executeFrom(_, _, _)
executeFrom(s, i, c) ==
  IF i > Len(s) THEN c ELSE executeFrom(s, i + 1, execute(s, s[i], c))

FinalContent(s) == executeFrom(s, 1, InitialContent)

RECURSIVE HasUndef(_)
HasUndef(t) ==
  \/ t[1] = "undef"
  \/ /\ t[1] \notin {"undef", "init", "splat"}
     /\ \E n \in 2 .. Len(t) : HasUndef(t[n])

\* Equality of contents; the maximum of two tensors does not depend on their order.
RECURSIVE SameContent(_, _)
SameContent(a, b) ==
  /\ a[1] = b[1]
  /\ CASE a[1] = "undef" -> TRUE
       [] a[1] \in {"init", "splat"} -> a[2] = b[2]
       [] a[1] = "max" -> \/ SameContent(a[2], b[2]) /\ SameContent(a[3], b[3])
                          \/ SameContent(a[2], b[3]) /\ SameContent(a[3], b[2])
       [] OTHER -> \A n \in 2 .. Len(a) : SameContent(a[n], b[n])

-----------------------------------------------------------------------------
(* The modules optimize() is called on *)

MaxBody == 3

V1 == "v1"
V2 == "v2"

Menus ==
  { \* copies between allocations and weights
    {Splat("A", 1), Splat("A", 2), Copy("B", "A"), Copy("W1", "B"), Copy("W1", "A"),
     Copy("A", "W2"), InsertTensor("B", "A")},
    \* element-wise operations, whose operands may share a buffer
    {Splat("A", 1), Splat("B", 2), ElementAdd("B", "A", "A"), ElementAdd("A", "A", "B"),
     Copy("W1", "B"), Copy("B", "W2")},
    \* tensor views
    {Splat("A", 1), TensorView(V1, "A", "T2"), TensorView(V2, V1, "T1"), Copy("W3", V1),
     Copy("W1", V2), Splat(V1, 2), TensorView(V2, "W1", "T2"), ElementAdd(V2, "C", "C"),
     Splat("C", 1)},
    \* the patterns of the peephole optimizer
    {Splat("A", 1), Copy("B", "W2"), ElementMax("W1", "A", "B"), Transpose("C", "A"),
     Reshape("C", "A"), Copy("W3", "C"), PoolMaxWithXY("A", "W2", "B"),
     SoftMaxWithE("W1", "W2", "B", "A")},
    \* ElementMax next to a tensor view that has the type of its source
    {Splat("A", 1), ElementMax("W1", "A", "B"), ElementMax("A", "W2", "W1"),
     TensorView(V1, "W2", "T1"), Splat(V1, 2)} }

Bodies(menu) == UNION {[1 .. n -> menu] : n \in 0 .. MaxBody}

OperandsOf(body) == UNION {{body[i].ops[j][1] : j \in DOMAIN body[i].ops} : i \in DOMAIN body}

\* Every tensor view is created once, before its users.
WellFormedBody(body) ==
  \A i \in DOMAIN body :
    /\ \A j \in DOMAIN body[i].ops :
         body[i].ops[j][1] \in Weights \cup Allocs
           \/ \E d \in 1 .. i - 1 : body[d].k = "TensorView" /\ body[d].id = body[i].ops[j][1]
    /\ body[i].k = "TensorView" => \A d \in 1 .. i - 1 : body[d].id # body[i].id

AllocOrder == <<"A", "B", "C">>

\* The module of a body: its allocations first, then the body, then the
\* deallocations of the allocations that have one.
Module(body, undeallocated) ==
  LET used(a) == a \in OperandsOf(body)
      freed(a) == a \in OperandsOf(body) \ undeallocated
  IN [i \in DOMAIN SelectSeq(AllocOrder, used) |-> AllocActivation(SelectSeq(AllocOrder, used)[i])]
       \o body
       \o [i \in DOMAIN SelectSeq(AllocOrder, freed) |->
             DeallocActivation(SelectSeq(AllocOrder, freed)[i])]

AllMutable == [W \in Weights |-> "Mutable"]

-----------------------------------------------------------------------------
(* Event: signal() and wait(), called by threads that share one Event *)

NumThreads == 3
MaxCalls == 2

Threads == 1 .. NumThreads
NoThread == 0

\* The Event as its constructor leaves it; no thread has called it yet.
NewEvent ==
  /\ fired_ = FALSE
  /\ mutex_ = NoThread
  /\ cond_ = {}
  /\ ip = [t \in Threads |-> "idle"]
  /\ calls = [t \in Threads |-> 0]
  /\ signalled = 0
  /\ refused = 0
  /\ late = {}
  /\ blocked = {}
  /\ waited = {}

\* A constructor of lock_guard or unique_lock that does not wait for the
\* mutex.
lockUnguarded(t) == mutex_' = t

\* std::lock_guard and std::unique_lock: the constructor returns when the
\* thread holds the mutex, the destructor releases it.
lock(t) == mutex_ = NoThread /\ mutex_' = t
unlock(t) == mutex_' = NoThread

\* The threads that cond_.notify_one() wakes among those blocked on cond_.
notify_one(waiters) == IF waiters = {} THEN {} ELSE {Min(waiters)}

\* The threads that cond_.notify_all() wakes among those blocked on cond_.
notify_all(waiters) == waiters

\* A thread calls signal() or wait().
Call(t, f) ==
  /\ ip[t] = "idle"
  /\ calls[t] < MaxCalls
  /\ calls' = [calls EXCEPT ![t] = @ + 1]
  /\ ip' = [ip EXCEPT ![t] = IF f = "signal" THEN "signal_lock" ELSE "wait_lock"]
  /\ late' = IF f = "wait" /\ signalled > 0 THEN late \cup {t} ELSE late \ {t}
  /\ blocked' = blocked \ {t}
  /\ waited' = waited \ {t}
  /\ UNCHANGED <<fired_, mutex_, cond_, signalled, refused>>

\* signal(): the lock_guard
SignalLock(t) ==
  /\ ip[t] = "signal_lock"
  /\ lock(t)
  /\ ip' = [ip EXCEPT ![t] = "signal_test"]
  /\ UNCHANGED <<fired_, cond_, calls, signalled, refused, late, blocked, waited>>

\* signal(): if (fired_) return false
SignalTest(t) ==
  /\ ip[t] = "signal_test"
  /\ IF fired_
     THEN /\ unlock(t)
          /\ ip' = [ip EXCEPT ![t] = "idle"]
          /\ refused' = refused + 1
     ELSE /\ ip' = [ip EXCEPT ![t] = "signal_set"]
          /\ UNCHANGED <<mutex_, refused>>
  /\ UNCHANGED <<fired_, cond_, calls, signalled, late, blocked, waited>>

\* signal(): fired_ = true
SignalSet(t) ==
  /\ ip[t] = "signal_set"
  /\ fired_' = TRUE
  /\ ip' = [ip EXCEPT ![t] = "signal_unlock"]
  /\ UNCHANGED <<mutex_, cond_, calls, signalled, refused, late, blocked, waited>>

\* signal(): the end of the scope of the lock_guard
SignalUnlock(t) ==
  /\ ip[t] = "signal_unlock"
  /\ unlock(t)
  /\ ip' = [ip EXCEPT ![t] = "signal_notify"]
  /\ UNCHANGED <<fired_, cond_, calls, signalled, refused, late, blocked, waited>>

\* signal(): cond_.notify_all(); return true
SignalNotify(t) ==
  /\ ip[t] = "signal_notify"
  /\ LET woken == notify_all(cond_)
     IN /\ cond_' = cond_ \ woken
        /\ ip' = [u \in Threads |->
                    IF u = t THEN "idle" ELSE IF u \in woken THEN "wait_relock" ELSE ip[u]]
  /\ signalled' = signalled + 1
  /\ UNCHANGED <<fired_, mutex_, calls, refused, late, blocked, waited>>

\* wait(): the unique_lock
WaitLock(t) ==
  /\ ip[t] = "wait_lock"
  /\ lock(t)
  /\ ip' = [ip EXCEPT ![t] = "wait_test"]
  /\ UNCHANGED <<fired_, cond_, calls, signalled, refused, late, blocked, waited>>

\* wait(): cond_.wait(guard, pred) tests the predicate with the mutex held;
\* it returns if the predicate holds, and otherwise releases the mutex and
\* blocks on cond_ in one step.
WaitTest(t) ==
  /\ ip[t] = "wait_test"
  /\ unlock(t)
  /\ IF fired_
     THEN /\ ip' = [ip EXCEPT ![t] = "idle"]
          /\ waited' = waited \cup {t}
          /\ UNCHANGED <<cond_, blocked>>
     ELSE /\ ip' = [ip EXCEPT ![t] = "wait_blocked"]
          /\ cond_' = cond_ \cup {t}
          /\ blocked' = blocked \cup {t}
          /\ UNCHANGED waited
  /\ UNCHANGED <<fired_, calls, signalled, refused, late>>

\* A thread blocked on a condition variable may wake up with no notification.
SpuriousWakeup(t) ==
  /\ t \in cond_
  /\ cond_' = cond_ \ {t}
  /\ ip' = [ip EXCEPT ![t] = "wait_relock"]
  /\ UNCHANGED <<fired_, mutex_, calls, signalled, refused, late, blocked, waited>>

\* wait(): a thread that has woken up takes the mutex again and tests the
\* predicate again.
WaitRelock(t) ==
  /\ ip[t] = "wait_relock"
  /\ lock(t)
  /\ ip' = [ip EXCEPT ![t] = "wait_test"]
  /\ UNCHANGED <<fired_, cond_, calls, signalled, refused, late, blocked, waited>>

\* The next statement of the call thread t is in.
Proceed(t) ==
  \/ SignalLock(t)
  \/ SignalTest(t)
  \/ SignalSet(t)
  \/ SignalUnlock(t)
  \/ SignalNotify(t)
  \/ WaitLock(t)
  \/ WaitTest(t)
  \/ WaitRelock(t)

optimizerVars == <<stream, mut, pc, pos, liveBuffers, IntervalsMap, ErasedInstructions,
                   input, first, run, instrumentDebug, before>>

NextEvent ==
  /\ \E t \in Threads :
       \/ Call(t, "signal")
       \/ Call(t, "wait")
       \/ Proceed(t)
       \/ SpuriousWakeup(t)
  /\ UNCHANGED optimizerVars

-----------------------------------------------------------------------------
(* optimize() *)

Terminated == pc \in {"done", "abort", "crash"}

\* Where optimize() is: what the next step will find in before.
Here == [pc |-> pc, pos |-> pos, stream |-> stream, mut |-> mut, live |-> liveBuffers]

\* An operand whose origin is an allocation that is no longer in the stream.
Dangling(s) ==
  \E i \in DOMAIN s : \E j \in DOMAIN s[i].ops :
    /\ getOrigin(s, s[i].ops[j][1]) \notin Weights
    /\ \A d \in DOMAIN s : ~(s[d].k = "AllocActivation" /\ s[d].id = getOrigin(s, s[i].ops[j][1]))

\* Scenario S4 of the specification; a use of a buffer prints it or inserts
\* it into a weight.
UseKinds == {"DebugPrint", "InsertTensor"}
Use(kind, x) == IF kind = "DebugPrint" THEN DebugPrint(x) ELSE InsertTensor("W1", x)
ScenarioS4(u) ==
  <<AllocActivation("A"), AllocActivation("B"), Splat("A", 3), Use(u[1], "A"),
    Copy("B", "A"), Use(u[2], "A"), Use(u[3], "B"), Use(u[4], "A"),
    DeallocActivation("B"), DeallocActivation("A")>>

\* A module of the menus or scenario S4, its weights of mutability m, at
\* point p of optimize().
ModuleAt(p, m) ==
  /\ \/ \E menu \in Menus : \E body \in Bodies(menu) :
          /\ WellFormedBody(body)
          /\ \E undeallocated \in {{}} \cup {{a} : a \in Allocs \cap OperandsOf(body)} :
               stream = Module(body, undeallocated)
     \/ \E u \in [1 .. 4 -> UseKinds] : stream = ScenarioS4(u)
  /\ mut = m
  /\ pc = p
  /\ pos = 0
  /\ liveBuffers = {}
  /\ IntervalsMap = <<>>
  /\ ErasedInstructions = {}
  /\ input = stream
  /\ first = <<>>
  /\ run = 1
  /\ before = [pc |-> "", pos |-> 0, stream |-> stream, mut |-> mut, live |-> liveBuffers]
  /\ NewEvent

\* optimize() is entered; the weights are created mutable.
Entry == ModuleAt("start", AllMutable)

\* instrument-debug is off unless the command line sets it.
Init == Entry /\ instrumentDebug = FALSE

\* optimize(), up to the first pass
Optimize ==
  /\ pc = "start"
  /\ pc' = "peephole1"
  /\ pos' = 1
  /\ before' = Here
  /\ UNCHANGED <<eventVars, instrumentDebug, stream, mut, liveBuffers, IntervalsMap, ErasedInstructions,
                 input, first, run>>

\* One iteration of the loop of performPeepholeOptimizations; at its end,
\* the pass that follows starts.
Peephole ==
  /\ pc \in {"peephole1", "peephole2"}
  /\ IF pos <= Len(stream)
     THEN /\ stream' = performPeepholeOptimizations(stream, pos).s
          /\ pos' = performPeepholeOptimizations(stream, pos).it
          /\ UNCHANGED <<pc, liveBuffers>>
     ELSE /\ pc' = IF pc = "peephole1" THEN "share" ELSE "dda2"
          /\ pos' = Len(stream)
          /\ liveBuffers' = Weights
          /\ UNCHANGED stream
  /\ before' = Here
  /\ UNCHANGED <<eventVars, instrumentDebug, mut, IntervalsMap, ErasedInstructions, input, first, run>>

\* One iteration of the loop of shareBuffers, at position pos from the end.
ShareBuffers ==
  /\ pc = "share"
  /\ IF pos >= 1
     THEN LET live == killOutputs(stream, stream[pos], 1, liveBuffers, {})
              shared == tryToShareBuffersForInstr(live, stream, pos)
          IN /\ stream' = shared
             /\ liveBuffers' = reviveInputs(shared, shared[pos], live)
             /\ pos' = pos - 1
             /\ UNCHANGED pc
     ELSE /\ pc' = "dda1"
          /\ UNCHANGED <<stream, liveBuffers, pos>>
  /\ before' = Here
  /\ UNCHANGED <<eventVars, instrumentDebug, mut, IntervalsMap, ErasedInstructions, input, first, run>>

DeleteDeadAllocs ==
  /\ pc \in {"dda1", "dda2", "dda3"}
  /\ stream' = deleteDeadAllocs(stream)
  /\ pc' = CASE pc = "dda1" -> "hoist" [] pc = "dda2" -> "dse" [] pc = "dda3" -> "instrument"
  /\ before' = Here
  /\ UNCHANGED <<eventVars, instrumentDebug, mut, pos, liveBuffers, IntervalsMap, ErasedInstructions,
                 input, first, run>>

HoistDealloc ==
  /\ pc = "hoist"
  /\ stream' = hoistDealloc(stream)
  /\ pc' = "sink"
  /\ before' = Here
  /\ UNCHANGED <<eventVars, instrumentDebug, mut, pos, liveBuffers, IntervalsMap, ErasedInstructions,
                 input, first, run>>

SinkAllocas ==
  /\ pc = "sink"
  /\ stream' = sinkAllocas(stream).s
  /\ pc' = IF sinkAllocas(stream).left = {} THEN "const" ELSE "abort"
  /\ before' = Here
  /\ UNCHANGED <<eventVars, instrumentDebug, mut, pos, liveBuffers, IntervalsMap, ErasedInstructions,
                 input, first, run>>

MakeWeightsConst ==
  /\ pc = "const"
  /\ mut' = makeWeightsConst(stream)
  /\ pc' = "copyprop"
  /\ before' = Here
  /\ UNCHANGED <<eventVars, instrumentDebug, stream, pos, liveBuffers, IntervalsMap, ErasedInstructions,
                 input, first, run>>

\* copyPropagation: the live intervals, then one iteration of its loop at a
\* time, then the erasure of the copies it propagated.
CopyPropagation ==
  /\ pc \in {"copyprop", "copyloop"}
  /\ IF pc = "copyprop"
     THEN /\ IntervalsMap' = calculateLiveIntervals(stream, mut)
          /\ pc' = IF firstReferenceIsWrite(stream, mut) THEN "copyloop" ELSE "abort"
          /\ pos' = 1
          /\ ErasedInstructions' = {}
          /\ UNCHANGED stream
     ELSE IF pos <= Len(stream)
     THEN LET r == copyPropagation(stream, mut, IntervalsMap, pos)
          IN /\ stream' = r.s
             /\ ErasedInstructions' = ErasedInstructions \cup (IF r.erase THEN {pos} ELSE {})
             /\ pc' = IF r.ok THEN pc ELSE "abort"
             /\ pos' = pos + 1
             /\ UNCHANGED IntervalsMap
     ELSE /\ stream' = eraseInstructions(stream, ErasedInstructions)
          /\ pc' = "peephole2"
          /\ pos' = 1
          /\ IntervalsMap' = <<>>
          /\ ErasedInstructions' = {}
  /\ before' = Here
  /\ UNCHANGED <<eventVars, instrumentDebug, mut, liveBuffers, input, first, run>>

\* On an empty list std::prev(instrs.end()) is undefined: the pass goes on
\* or the process dies.
EliminateDeadStores ==
  /\ pc = "dse"
  /\ stream' = eliminateDeadStores(stream)
  /\ pc' \in (IF stream = <<>> THEN {"dda3", "crash"} ELSE {"dda3"})
  /\ before' = Here
  /\ UNCHANGED <<eventVars, instrumentDebug, mut, pos, liveBuffers, IntervalsMap, ErasedInstructions,
                 input, first, run>>

\* performDebugInstrumentation and the return of optimize().
Return ==
  /\ pc = "instrument"
  /\ stream' = performDebugInstrumentation(stream, instrumentDebug)
  /\ pc' = "done"
  /\ before' = Here
  /\ UNCHANGED <<eventVars, instrumentDebug, mut, pos, liveBuffers, IntervalsMap, ErasedInstructions,
                 input, first, run>>

\* A pass reads an instruction that eraseInstruction destroyed while it was
\* still an operand: the read is undefined and the process may die of it.
UseAfterFree ==
  /\ ~Terminated
  /\ pc # "start"
  /\ Dangling(stream)
  /\ pc' = "crash"
  /\ before' = Here
  /\ UNCHANGED <<eventVars, instrumentDebug, stream, mut, pos, liveBuffers, IntervalsMap,
                 ErasedInstructions, input, first, run>>

\* optimize() is called again on the module it returned.
OptimizeAgain ==
  /\ pc = "done"
  /\ run = 1
  /\ run' = 2
  /\ first' = [stream |-> stream, mut |-> mut]
  /\ pc' = "start"
  /\ before' = Here
  /\ UNCHANGED <<eventVars, instrumentDebug, stream, mut, pos, liveBuffers, IntervalsMap,
                 ErasedInstructions, input>>

Next ==
  \/ Optimize
  \/ Peephole
  \/ ShareBuffers
  \/ DeleteDeadAllocs
  \/ HoistDealloc
  \/ SinkAllocas
  \/ MakeWeightsConst
  \/ CopyPropagation
  \/ EliminateDeadStores
  \/ Return
  \/ UseAfterFree

Spec == Init /\ [][Next]_vars

NextTwice == Next \/ OptimizeAgain

SpecTwice == Init /\ [][NextTwice]_vars

\* performDebugInstrumentation alone, on a module of the menus, with
\* instrument-debug on or off.
InitInstrument == ModuleAt("instrument", AllMutable) /\ instrumentDebug \in BOOLEAN
SpecInstrument == InitInstrument /\ [][Return]_vars

\* eliminateDeadStores alone, on a module of the menus.
InitDeadStores == ModuleAt("dse", AllMutable) /\ instrumentDebug = FALSE
SpecDeadStores == InitDeadStores /\ [][EliminateDeadStores]_vars

\* performPeepholeOptimizations alone, as the first pass of optimize(): the
\* loop of the pass goes on as long as it has an instruction to visit.
SpecPeephole == Init /\ [][Optimize \/ Peephole]_vars /\ WF_vars(Peephole)

\* The threads of an Event, with no module under optimization.
InitEvent ==
  /\ NewEvent
  /\ stream = <<>>
  /\ mut = AllMutable
  /\ pc = "done"
  /\ pos = 0
  /\ liveBuffers = {}
  /\ IntervalsMap = <<>>
  /\ ErasedInstructions = {}
  /\ input = <<>>
  /\ first = <<>>
  /\ run = 1
  /\ instrumentDebug = FALSE
  /\ before = [pc |-> "", pos |-> 0, stream |-> stream, mut |-> mut, live |-> liveBuffers]

SpecEvent == InitEvent /\ [][NextEvent]_vars

\* A thread that can take the next statement of its call again and again
\* takes it in the end; threads need not call, and need not wake up without
\* a notification.
FairSpecEvent == SpecEvent /\ \A t \in Threads : SF_vars(Proceed(t) /\ UNCHANGED optimizerVars)

\* shareBuffers alone, on a module of the menus in which every allocation is
\* made where it is first used.
InitShare ==
  /\ \E menu \in Menus : \E body \in Bodies(menu) :
       /\ WellFormedBody(body)
       /\ \E undeallocated \in {{}} \cup {{a} : a \in Allocs \cap OperandsOf(body)} :
            stream = sinkAllocas(Module(body, undeallocated)).s
  /\ mut = AllMutable
  /\ pc = "share"
  /\ pos = Len(stream)
  /\ liveBuffers = Weights
  /\ IntervalsMap = <<>>
  /\ ErasedInstructions = {}
  /\ input = stream
  /\ first = <<>>
  /\ run = 1
  /\ before = [pc |-> "", pos |-> 0, stream |-> stream, mut |-> mut, live |-> liveBuffers]
  /\ NewEvent
  /\ instrumentDebug = FALSE
SpecShare == InitShare /\ [][ShareBuffers]_vars

\* makeWeightsConst alone, on a module of the menus whose weights have any
\* mutability.
InitWeightsConst ==
  /\ \E m \in [Weights -> {"Mutable", "Constant"}] : ModuleAt("const", m)
  /\ instrumentDebug = FALSE
SpecWeightsConst == InitWeightsConst /\ [][MakeWeightsConst]_vars

-----------------------------------------------------------------------------
(* The properties of optimize() *)

\* I2: an allocation precedes its deallocation and every other instruction
\* that uses it, directly or through tensor views, lies between the two.
I2(s) ==
  \A pa \in DOMAIN s : \A pd \in DOMAIN s :
    (s[pa].k = "AllocActivation" /\ s[pd].k = "DeallocActivation"
       /\ s[pd].ops[1][1] = s[pa].id) =>
      /\ pa < pd
      /\ \A i \in DOMAIN s :
           (s[i].k # "DeallocActivation"
              /\ \E j \in DOMAIN s[i].ops : getOrigin(s, s[i].ops[j][1]) = s[pa].id)
             => pa < i /\ i < pd

\* Some instruction of s reads a buffer that holds no defined content.
RECURSIVE ReadsUndefFrom(_, _, _)
ReadsUndefFrom(s, i, c) ==
  IF i > Len(s) THEN FALSE
  ELSE \/ /\ s[i].k \notin {"TensorView", "DeallocActivation", "AllocActivation"}
          /\ \E j \in DOMAIN s[i].ops :
               /\ s[i].ops[j][2] # "Out"
               /\ HasUndef(IF getOrigin(s, s[i].ops[j][1]) \in DOMAIN c
                           THEN c[getOrigin(s, s[i].ops[j][1])] ELSE Undef)
       \/ ReadsUndefFrom(s, i + 1, execute(s, s[i], c))

ReadsUndef(s) == ReadsUndefFrom(s, 1, InitialContent)

AllFreed(s) ==
  \A i \in DOMAIN s :
    s[i].k = "AllocActivation" =>
      \E d \in DOMAIN s : s[d].k = "DeallocActivation" /\ s[d].ops[1][1] = s[i].id

\* A module whose meaning is beyond question: every allocation is freed and
\* no instruction reads a buffer before it was written.
WellDefined(s) == AllFreed(s) /\ ~ReadsUndef(s)

\* C1: semantic preservation. When optimize() has returned, executing the
\* optimized stream leaves every weight with the content that executing the
\* input stream leaves it with.
SemanticPreservation ==
  (pc = "done" /\ WellDefined(input)) =>
    \A w \in Weights : SameContent(FinalContent(stream)[w], FinalContent(input)[w])

\* C2: after optimize() has returned, every allocation that has a
\* deallocation precedes it, and every other instruction that uses the
\* allocation, directly or through tensor views, lies between the two.
LifetimesBracketUses == (pc = "done" /\ WellDefined(input)) => I2(stream)

\* C3: after every deleteDeadAllocs sweep and after optimize() has returned,
\* every operand resolves through its tensor views to a weight or to an
\* allocation that is still in the stream.
NoDanglingOperand ==
  (pc \in {"hoist", "dse", "instrument", "done"} /\ ~ReadsUndef(input)) => ~Dangling(stream)

\* C4: on every module that satisfies I1-I5, even when no instruction of it
\* reads a buffer before it was written, no assertion of sinkAllocas,
\* calculateLiveIntervals, replaceAllNonDeallocUsersWith or copyPropagation
\* fails.
NoFatalAbort == ~ReadsUndef(input) => pc # "abort"

\* The stream with every value named by the place of its definition.
Structure(s) ==
  LET place(v) == IF v \in Weights THEN v
                  ELSE {i \in DOMAIN s : s[i].k \in {"AllocActivation", "TensorView"}
                                           /\ s[i].id = v}
  IN [i \in DOMAIN s |->
        [k |-> s[i].k, ty |-> s[i].ty, c |-> s[i].c,
         ops |-> [j \in DOMAIN s[i].ops |-> <<place(s[i].ops[j][1]), s[i].ops[j][2]>>]]]

\* C5: idempotence. A second optimize() on the module a first optimize()
\* returned leaves the instructions, their operands, operand kinds and order,
\* and the mutability of the weights as they were, up to the names; this
\* even when the first optimize() kept the content of every weight.
Idempotence ==
  (/\ pc = "done"
   /\ run = 2
   /\ WellDefined(input)
   /\ \A w \in Weights :
        SameContent(FinalContent(first.stream)[w], FinalContent(input)[w])) =>
    (Structure(stream) = Structure(first.stream) /\ mut = first.mut)

\* C6: when optimize() has returned, every operand that references a
\* Constant weight is an In operand.
ConstantWeightsAreOnlyRead ==
  pc = "done" =>
    \A W \in Weights :
      mut[W] = "Constant" =>
        \A i \in DOMAIN stream : \A j \in DOMAIN stream[i].ops :
          stream[i].ops[j][1] = W => stream[i].ops[j][2] = "In"

\* optimize() has returned a stream in which an instruction that the input
\* did not have reads a Constant weight.
ConstantWeightsAreOnlyReadWitness ==
  /\ pc = "done"
  /\ \E i \in DOMAIN stream : \E j \in DOMAIN stream[i].ops :
       /\ stream[i].ops[j][1] \in Weights
       /\ mut[stream[i].ops[j][1]] = "Constant"
       /\ \A n \in DOMAIN input : input[n] # stream[i]

\* C7: liveness coverage. In the map calculateLiveIntervals has computed,
\* every allocation and every weight that is not Constant has, for every
\* instruction other than a deallocation that has it as an operand, an
\* interval that contains the number of that instruction.
LivenessCoverage ==
  (pc = "copyloop" /\ pos = 1) =>
    \A loc \in Allocs \cup Weights :
      (loc \in Allocs \/ mut[loc] # "Constant") =>
        \A i \in DOMAIN stream :
          (stream[i].k # "DeallocActivation"
             /\ \E j \in DOMAIN stream[i].ops : stream[i].ops[j][1] = loc) =>
            \E n \in DOMAIN IntervalsMap[loc] :
              IntervalsMap[loc][n][1] <= i - 1 /\ i - 1 <= IntervalsMap[loc][n][2]

\* calculateLiveIntervals has computed, for some allocation, two intervals
\* of which the first spans several instructions.
LivenessCoverageWitness ==
  /\ pc = "copyloop"
  /\ pos = 1
  /\ \E loc \in Allocs :
       /\ Len(IntervalsMap[loc]) >= 2
       /\ IntervalsMap[loc][1][1] < IntervalsMap[loc][1][2]

\* The intervals of the map that contain instruction number n.
Enclosing(ivs, n) == {m \in DOMAIN ivs : ivs[m][1] <= n /\ n <= ivs[m][2]}

\* The copy at position pos, whose source is no weight, is one that the text
\* of Case B propagates: SI and DI are the first intervals that enclose it.
CaseBGuard ==
  LET Src == stream[pos].ops[2][1]
      Dest == stream[pos].ops[1][1]
      SIs == IF Src \in DOMAIN IntervalsMap THEN IntervalsMap[Src] ELSE <<>>
      DIs == IF Dest \in DOMAIN IntervalsMap THEN IntervalsMap[Dest] ELSE <<>>
  IN /\ Enclosing(SIs, pos - 1) # {}
     /\ Enclosing(DIs, pos - 1) # {}
     /\ LET SI == SIs[Min(Enclosing(SIs, pos - 1))]
            DI == DIs[Min(Enclosing(DIs, pos - 1))]
        IN SI[2] <= DI[1] \/ (SI[1] < DI[1] /\ DI[2] <= SI[2])

\* The stream in which the operands that reference Src within SI reference
\* Dest, but for those at SI.begin that are not Out.
CaseBRewrite ==
  LET Src == stream[pos].ops[2][1]
      Dest == stream[pos].ops[1][1]
      SI == IntervalsMap[Src][Min(Enclosing(IntervalsMap[Src], pos - 1))]
  IN [i \in DOMAIN stream |->
        [stream[i] EXCEPT !.ops =
           [j \in DOMAIN @ |->
              IF /\ @[j][1] = Src
                 /\ SI[1] <= i - 1
                 /\ i - 1 <= SI[2]
                 /\ (i - 1 # SI[1] \/ @[j][2] = "Out")
              THEN <<Dest, @[j][2]>>
              ELSE @[j]]]]

CaseBStep ==
  (/\ pc = "copyloop"
   /\ pos <= Len(stream)
   /\ pos' = pos + 1
   /\ stream[pos].k = "Copy"
   /\ stream[pos].ops[2][1] \notin Weights
   /\ TypeOf(stream, stream[pos].ops[2][1]) = TypeOf(stream, stream[pos].ops[1][1])) =>
    IF CaseBGuard
    THEN stream' = CaseBRewrite /\ ErasedInstructions' = ErasedInstructions \cup {pos}
    ELSE stream' = stream /\ ErasedInstructions' = ErasedInstructions

\* C8: copy propagation, Case B. A copy at instruction i whose source is no
\* weight is propagated if and only if source and destination have intervals
\* SI and DI that enclose i with SI.end <= DI.begin, or SI.begin < DI.begin
\* and DI.end <= SI.end; it then rewires to the destination every operand
\* that references the source within SI, but for the operands at SI.begin
\* that are not Out, and no other operand.
CaseBGuardAndRewrite == [][CaseBStep]_vars

\* A copy between allocations has been propagated: it is now a copy of its
\* destination to itself and waits for its erasure.
CaseBGuardAndRewriteWitness ==
  /\ pc = "copyloop"
  /\ \E p \in ErasedInstructions :
       /\ stream[p].ops[1][1] = stream[p].ops[2][1]
       /\ stream[p].ops[1][1] \in Allocs

\* The copy at position pos, whose source is a weight, is one that the text
\* of Case A propagates.
CaseAGuard ==
  LET Src == stream[pos].ops[2][1]
      Dest == stream[pos].ops[1][1]
  IN /\ mut[Src] = "Constant"
     /\ Dest \notin Weights
     /\ \A i \in DOMAIN stream : \A j \in DOMAIN stream[i].ops :
          (stream[i].k # "DeallocActivation" /\ stream[i].ops[j][1] = Dest
             /\ stream[i].ops[j][2] # "In") => (i = pos /\ j = 1)

\* The stream in which what used Dest, deallocations apart, uses Src.
CaseARewrite ==
  LET Src == stream[pos].ops[2][1]
      Dest == stream[pos].ops[1][1]
  IN [i \in DOMAIN stream |->
        IF stream[i].k = "DeallocActivation" THEN stream[i]
        ELSE [stream[i] EXCEPT !.ops =
                [j \in DOMAIN @ |-> IF @[j][1] = Dest THEN <<Src, @[j][2]>> ELSE @[j]]]]

\* The instructions of s outside the positions E, in their order.
Remaining(s, E) ==
  LET K == DOMAIN s \ E
  IN [n \in 1 .. Cardinality(K) |->
        s[CHOOSE p \in K : Cardinality({q \in K : q <= p}) = n]]

CaseAStep ==
  /\ (/\ pc = "copyloop"
      /\ pos <= Len(stream)
      /\ pos' = pos + 1
      /\ stream[pos].k = "Copy"
      /\ stream[pos].ops[2][1] \in Weights
      /\ TypeOf(stream, stream[pos].ops[2][1]) = TypeOf(stream, stream[pos].ops[1][1])) =>
       IF CaseAGuard
       THEN stream' = CaseARewrite /\ ErasedInstructions' = ErasedInstructions \cup {pos}
       ELSE stream' = stream /\ ErasedInstructions' = ErasedInstructions
  /\ (pc = "copyloop" /\ pc' = "peephole2") => stream' = Remaining(stream, ErasedInstructions)

\* C9: copy propagation, Case A. A copy whose source is a weight is
\* propagated only when the source is Constant, the copy is the single
\* writer of its destination and the destination is no weight; then
\* everything that used the destination, deallocations apart, uses the
\* source and the copy is erased at the end of the pass; otherwise the copy
\* stays and no use of its destination changes.
CaseAGuardAndRewrite == [][CaseAStep]_vars

\* A copy of a Constant weight to an allocation has been propagated and
\* waits for its erasure.
CaseAGuardAndRewriteWitness ==
  /\ pc = "copyloop"
  /\ \E p \in ErasedInstructions :
       /\ stream[p].ops[2][1] \in Weights
       /\ mut[stream[p].ops[2][1]] = "Constant"
       /\ stream[p].ops[1][1] = stream[p].ops[2][1]

\* The operand pairs of the instruction at position pos that the text of
\* buffer sharing lets share a buffer, live being the live set once the
\* <out> operands of the instruction have left it.
SharingPairs(live) ==
  LET I == stream[pos]
      org(j) == IF getOrigin(stream, I.ops[j][1]) \in Allocs
                THEN getOrigin(stream, I.ops[j][1])
                ELSE I.ops[j][1]
  IN {pr \in (DOMAIN I.ops) \X (DOMAIN I.ops) :
        /\ pr[1] < pr[2]
        /\ TypeOf(stream, org(pr[1])) = TypeOf(stream, org(pr[2]))
        /\ org(pr[1]) # org(pr[2])
        /\ isInplaceOp(I, pr[1], pr[2])
        /\ org(pr[1]) \notin live
        /\ org(pr[2]) \notin live}

\* The stream in which what used the dest of the pair, deallocations apart,
\* uses its src.
SharingRewrite(pr) ==
  LET I == stream[pos]
      org(j) == IF getOrigin(stream, I.ops[j][1]) \in Allocs
                THEN getOrigin(stream, I.ops[j][1])
                ELSE I.ops[j][1]
  IN [i \in DOMAIN stream |->
        IF stream[i].k = "DeallocActivation" THEN stream[i]
        ELSE [stream[i] EXCEPT !.ops =
                [j \in DOMAIN @ |->
                   IF @[j][1] = org(pr[1]) THEN <<org(pr[2]), @[j][2]>> ELSE @[j]]]]

SharingStep ==
  (pc = "share" /\ pos >= 1 /\ pos' = pos - 1) =>
    \/ stream' = stream
    \/ \E pr \in SharingPairs(killOutputs(stream, stream[pos], 1, liveBuffers, {})) :
         stream' = SharingRewrite(pr)

\* C10: buffer sharing changes the stream at an instruction only for a pair
\* of its operands first < second whose dest and src (the allocation
\* origins, or the operands themselves) have the same type, differ, are
\* allowed by isInplaceOp and are both outside the live set; it then rewires
\* every use of dest, deallocations apart, to src, and does so for one pair
\* only.
SharingGuardAndRewrite == [][SharingStep]_vars

\* shareBuffers has just made an ElementAdd, which the input does not have
\* in this form, write the buffer of one of its inputs.
SharingGuardAndRewriteWitness ==
  /\ pc = "share"
  /\ pos < Len(stream)
  /\ stream[pos + 1].k = "ElementAdd"
  /\ stream[pos + 1].ops[1][1] \in {stream[pos + 1].ops[2][1], stream[pos + 1].ops[3][1]}
  /\ \A n \in DOMAIN input : input[n] # stream[pos + 1]

-----------------------------------------------------------------------------
(* eliminateDeadStores *)

\* The step of optimize() that just ran was the pass at pc value p, and it
\* went on to q.
Ran(p, q) == before.pc = p /\ pc = q

\* The positions of the instructions of s that write location loc, directly
\* or through tensor views.
StoresTo(s, loc) ==
  {i \in DOMAIN s : \E op \in DOMAIN s[i].ops :
     s[i].ops[op][2] # "In" /\ getOrigin(s, s[i].ops[op][1]) = loc}

\* C11: eliminateDeadStores never erases the terminal store to a weight: the
\* last instruction that writes a weight, directly or through a tensor view,
\* is still in the stream after the pass, and is still the last one to write
\* the weight.
TerminalStoresKept ==
  Ran("dse", "dda3") =>
    \A W \in Weights :
      StoresTo(before.stream, W) # {} =>
        /\ StoresTo(stream, W) # {}
        /\ stream[Max(StoresTo(stream, W))] = before.stream[Max(StoresTo(before.stream, W))]

\* The pass erased a store to a weight that a later store overwrites.
TerminalStoresKeptWitness ==
  /\ Ran("dse", "dda3")
  /\ \E W \in Weights :
       /\ Cardinality(StoresTo(stream, W)) < Cardinality(StoresTo(before.stream, W))
       /\ StoresTo(stream, W) # {}

\* The instructions eliminateDeadStores looks at.
IsStore(I) == I.k \notin {"AllocActivation", "DeallocActivation", "TensorView"}

\* The locations instruction i of s writes, and the ones it reads.
WrittenBy(s, i) ==
  {getOrigin(s, s[i].ops[op][1]) : op \in {op \in DOMAIN s[i].ops : s[i].ops[op][2] # "In"}}
ReadBy(s, i) ==
  {getOrigin(s, s[i].ops[op][1]) : op \in {op \in DOMAIN s[i].ops : s[i].ops[op][2] # "Out"}}

\* What instruction i of s wrote to loc is read by a later instruction that
\* is not in E, before loc is written again.
ReadBeforeNextWrite(s, i, loc, E) ==
  \E j \in i + 1 .. Len(s) :
    /\ j \notin E
    /\ IsStore(s[j])
    /\ loc \in ReadBy(s, j)
    /\ \A k \in i + 1 .. j - 1 : IsStore(s[k]) => loc \notin WrittenBy(s, k)

\* Instruction i of s is the store to a weight that reaches the end.
TerminalStore(s, i, loc) ==
  /\ loc \in Weights
  /\ \A k \in i + 1 .. Len(s) : IsStore(s[k]) => loc \notin WrittenBy(s, k)

\* The example of the specification.
DeadSplat ==
  <<AllocActivation("A"), Splat("A", 1), Splat("A", 2), Copy("W1", "A"),
    DeallocActivation("A")>>

\* C12: eliminateDeadStores erases an instruction that is no allocation,
\* deallocation or tensor view exactly when it writes an operand and nothing
\* it writes is read by a later surviving instruction before the next write
\* or is the store to a weight that reaches the end; every other instruction
\* is kept. Of the two Splats of the example only the first is erased.
DeadStoresExactly ==
  Ran("dse", "dda3") =>
    LET s == before.stream
        E == deadStores(s, Len(s), Weights)
    IN /\ stream = eraseInstructions(s, E)
       /\ \A i \in DOMAIN s :
            i \in E <=>
              /\ IsStore(s[i])
              /\ WrittenBy(s, i) # {}
              /\ \A loc \in WrittenBy(s, i) :
                   ~ReadBeforeNextWrite(s, i, loc, E) /\ ~TerminalStore(s, i, loc)
       /\ s = DeadSplat => stream = RemoveAt(DeadSplat, 2)

\* The pass ran on the example.
DeadStoresExactlyWitness ==
  /\ Ran("dse", "dda3")
  /\ before.stream = DeadSplat
  /\ stream = RemoveAt(DeadSplat, 2)

-----------------------------------------------------------------------------
(* hoistDealloc *)

\* The positions of the instructions of s, deallocations apart, that use
\* allocation a, directly or through tensor views.
UsersOf(s, a) ==
  {i \in DOMAIN s :
     /\ s[i].k \notin {"AllocActivation", "DeallocActivation"}
     /\ \E j \in DOMAIN s[i].ops : getAllocationOrigin(s, s[i].ops[j][1]) = a}

Deallocs(s) == {d \in DOMAIN s : s[d].k = "DeallocActivation"}
Deallocated(s, d) == getOrigin(s, s[d].ops[1][1])

\* C13, as the specification states it: after hoistDealloc every
\* deallocation is immediately after the last instruction, deallocations
\* apart, that uses its allocation.
DeallocRightAfterLastUse ==
  Ran("hoist", "sink") =>
    \A d \in Deallocs(stream) :
      UsersOf(stream, Deallocated(stream, d)) # {} =>
        d = Max(UsersOf(stream, Deallocated(stream, d))) + 1

\* C13, amended: after hoistDealloc every deallocation follows the last
\* instruction, deallocations apart, that uses its allocation, with nothing
\* but deallocations between the two; the deallocations of allocations that
\* share their last user follow it in a row.
DeallocAfterLastUse ==
  Ran("hoist", "sink") =>
    \A d \in Deallocs(stream) :
      LET U == UsersOf(stream, Deallocated(stream, d))
      IN U # {} =>
           /\ Max(U) < d
           /\ \A k \in Max(U) + 1 .. d - 1 : k \in Deallocs(stream)

\* The pass moved a deallocation, and two allocations share their last user.
DeallocAfterLastUseWitness ==
  /\ Ran("hoist", "sink")
  /\ stream # before.stream
  /\ \E d, e \in Deallocs(stream) :
       /\ d # e
       /\ UsersOf(stream, Deallocated(stream, d)) # {}
       /\ UsersOf(stream, Deallocated(stream, e)) # {}
       /\ Max(UsersOf(stream, Deallocated(stream, d)))
            = Max(UsersOf(stream, Deallocated(stream, e)))

-----------------------------------------------------------------------------
(* sinkAllocas *)

\* The positions in s of the AllocActivation of a, and of the other
\* instructions that have a as an operand.
AllocsOf(s, a) == {i \in DOMAIN s : s[i].k = "AllocActivation" /\ s[i].id = a}
References(s, a) ==
  {i \in DOMAIN s : \E j \in DOMAIN s[i].ops : s[i].ops[j][1] = a}
Allocated(s) == {s[i].id : i \in {i \in DOMAIN s : s[i].k = "AllocActivation"}}

\* C14, as the specification states it: after sinkAllocas every
\* AllocActivation that was in the stream is in it exactly once, immediately
\* before the first instruction that references it.
AllocRightBeforeFirstUse ==
  (before.pc = "sink" /\ pc \in {"const", "abort"}) =>
    \A a \in Allocated(before.stream) :
      /\ Cardinality(AllocsOf(stream, a)) = 1
      /\ References(stream, a) # {}
      /\ \A i \in AllocsOf(stream, a) : i + 1 = Min(References(stream, a))

\* C14, amended: after sinkAllocas every AllocActivation that was in the
\* stream is in it exactly once, before the first instruction that
\* references it and with nothing but AllocActivations between the two; the
\* other instructions keep their order.
AllocBeforeFirstUse ==
  (before.pc = "sink" /\ pc \in {"const", "abort"}) =>
    /\ \A a \in Allocated(before.stream) :
         /\ Cardinality(AllocsOf(stream, a)) = 1
         /\ References(stream, a) # {}
         /\ \A i \in AllocsOf(stream, a) :
              /\ i < Min(References(stream, a))
              /\ \A k \in i + 1 .. Min(References(stream, a)) - 1 :
                   stream[k].k = "AllocActivation"
    /\ SelectSeq(stream, NotAllocInstr) = SelectSeq(before.stream, NotAllocInstr)
    /\ pc = "const"

\* The pass moved an allocation, and one instruction is the first to
\* reference two allocations.
AllocBeforeFirstUseWitness ==
  /\ Ran("sink", "const")
  /\ stream # before.stream
  /\ \E a, b \in Allocated(stream) :
       /\ a # b
       /\ Min(References(stream, a)) = Min(References(stream, b))

-----------------------------------------------------------------------------
(* makeWeightsConst *)

\* C15: after makeWeightsConst a weight is Constant if and only if every
\* operand that references it is an In operand, which a weight without users
\* satisfies, and Mutable otherwise, whatever its mutability was before.
MutabilityInference ==
  Ran("const", "copyprop") =>
    /\ stream = before.stream
    /\ \A W \in Weights :
         /\ mut[W] \in {"Constant", "Mutable"}
         /\ mut[W] = "Constant" <=>
              \A i \in DOMAIN stream : \A j \in DOMAIN stream[i].ops :
                stream[i].ops[j][1] = W => stream[i].ops[j][2] = "In"

\* The pass made a constant weight mutable, a mutable weight constant, and
\* a weight without users constant.
MutabilityInferenceWitness ==
  /\ Ran("const", "copyprop")
  /\ \E W \in Weights : before.mut[W] = "Constant" /\ mut[W] = "Mutable"
  /\ \E W \in Weights :
       before.mut[W] = "Mutable" /\ mut[W] = "Constant" /\ Uses(stream, W) # {}
  /\ \E W \in Weights :
       before.mut[W] = "Mutable" /\ mut[W] = "Constant" /\ Uses(stream, W) = {}

-----------------------------------------------------------------------------
(* optimize() on an empty instruction stream *)

\* C16: on a module whose instruction stream is empty optimize() does
\* nothing: it returns, the stream is still empty, and every weight has the
\* mutability it had.
EmptyStreamNoOp ==
  input = <<>> =>
    /\ pc \notin {"abort", "crash"}
    /\ stream = <<>>
    /\ pc = "done" => mut = AllMutable

-----------------------------------------------------------------------------
(* performDebugInstrumentation *)

\* The operands of I whose kind is not the given one, in operand order.
RECURSIVE OperandsNot(_, _, _)
OperandsNot(I, j, kind) ==
  IF j > Len(I.ops) THEN <<>>
  ELSE (IF I.ops[j][2] # kind THEN <<I.ops[j][1]>> ELSE <<>>) \o OperandsNot(I, j + 1, kind)

Instrumented(I) == I.k \notin {"AllocActivation", "DeallocActivation", "DebugPrint"}
PrintsBefore(I) == IF Instrumented(I) THEN OperandsNot(I, 1, "Out") ELSE <<>>
PrintsAfter(I) == IF Instrumented(I) THEN OperandsNot(I, 1, "In") ELSE <<>>

\* The position in the instrumented stream of instruction i of s.
RECURSIVE PositionOf(_, _)
PositionOf(s, i) ==
  IF i = 0 THEN 0
  ELSE PositionOf(s, i - 1)
         + (IF i = 1 THEN 0 ELSE Len(PrintsAfter(s[i - 1])))
         + Len(PrintsBefore(s[i])) + 1

\* C17: with instrument-debug on, performDebugInstrumentation puts before
\* each instruction that is no allocation, deallocation or DebugPrint one
\* DebugPrint for each operand whose kind is not Out, and after it one
\* DebugPrint for each operand whose kind is not In; nothing else is
\* inserted, so that the DebugPrints themselves are not instrumented. With
\* instrument-debug off the stream is unchanged.
DebugInstrumentation ==
  Ran("instrument", "done") =>
    LET s == before.stream
    IN IF ~instrumentDebug THEN stream = s
       ELSE /\ Len(stream) = IF s = <<>> THEN 0
                             ELSE PositionOf(s, Len(s)) + Len(PrintsAfter(s[Len(s)]))
            /\ \A i \in DOMAIN s :
                 LET p == PositionOf(s, i)
                     b == PrintsBefore(s[i])
                     a == PrintsAfter(s[i])
                 IN /\ stream[p] = s[i]
                    /\ \A j \in DOMAIN b : stream[p - Len(b) + j - 1] = DebugPrint(b[j])
                    /\ \A j \in DOMAIN a : stream[p + j] = DebugPrint(a[j])

\* The pass instrumented an instruction with an InOut operand and met a
\* DebugPrint that was in the stream already.
DebugInstrumentationWitness ==
  /\ Ran("instrument", "done")
  /\ instrumentDebug
  /\ \E i \in DOMAIN before.stream : before.stream[i].k = "DebugPrint"
  /\ \E i \in DOMAIN before.stream : \E j \in DOMAIN before.stream[i].ops :
       Instrumented(before.stream[i]) /\ before.stream[i].ops[j][2] = "InOut"

-----------------------------------------------------------------------------
(* Scenario S4: copy propagation, the enclosed case *)

\* C18: optimize() turns scenario S4 into A = alloc; Splat(A, 3); four uses
\* of A; dealloc A: the copy is gone, the use of B reads A, and the
\* allocation and deallocation of B are removed while those of A remain.
ScenarioS4Result ==
  \A u \in [1 .. 4 -> UseKinds] :
    (input = ScenarioS4(u) /\ pc = "done") =>
      stream = <<AllocActivation("A"), Splat("A", 3), Use(u[1], "A"), Use(u[2], "A"),
                 Use(u[3], "A"), Use(u[4], "A"), DeallocActivation("A")>>

-----------------------------------------------------------------------------
(* performPeepholeOptimizations *)

\* The last step was an iteration of the loop of
\* performPeepholeOptimizations on an instruction of kind k.
Visited(k) ==
  /\ before.pc \in {"peephole1", "peephole2"}
  /\ pc = before.pc
  /\ before.pos <= Len(before.stream)
  /\ before.stream[before.pos].k = k

NamesOf(s) ==
  {s[i].id : i \in DOMAIN s} \cup UNION {{s[i].ops[j][1] : j \in DOMAIN s[i].ops} : i \in DOMAIN s}

\* C19: performPeepholeOptimizations replaces every Reshape(dest, src), where
\* it is, by a new TensorView of src that has the type of dest, followed
\* directly by Copy(dest <- view); the scan goes on at the new TensorView, no
\* Reshape is left behind it, and none remains after the pass.
ReshapeLowering ==
  /\ Visited("Reshape") =>
       LET s == before.stream
           cur == before.pos
           dest == s[cur].ops[1][1]
           src == s[cur].ops[2][1]
       IN /\ Len(stream) = Len(s) + 1
          /\ SubSeq(stream, 1, cur - 1) = SubSeq(s, 1, cur - 1)
          /\ SubSeq(stream, cur + 2, Len(stream)) = SubSeq(s, cur + 1, Len(s))
          /\ stream[cur].k = "TensorView"
          /\ stream[cur].id \notin NamesOf(s)
          /\ stream[cur] = TensorView(stream[cur].id, src, TypeOf(s, dest))
          /\ stream[cur + 1] = Copy(dest, stream[cur].id)
          /\ pos = cur
  /\ pc \in {"peephole1", "peephole2"} =>
       \A i \in 1 .. Min({pos - 1, Len(stream)}) : stream[i].k # "Reshape"
  /\ (before.pc \in {"peephole1", "peephole2"} /\ pc \in {"share", "dda2"}) =>
       \A i \in DOMAIN stream : stream[i].k # "Reshape"

\* A Reshape was lowered, its TensorView and Copy were visited, and the pass
\* is over.
ReshapeLoweringWitness ==
  /\ before.pc = "peephole1"
  /\ pc = "share"
  /\ \E i \in DOMAIN input : input[i].k = "Reshape"
  /\ \E i \in DOMAIN stream :
       stream[i].k = "TensorView" /\ stream[i].id \notin NamesOf(input)

\* The sole writer of v in s is a Splat.
SplatIsSoleWriter(s, v) ==
  LET W == {u \in Uses(s, v) : s[u[1]].k # "DeallocActivation" /\ s[u[1]].ops[u[2]][2] # "In"}
  IN Cardinality(W) = 1 /\ \A u \in W : s[u[1]].k = "Splat"

\* ElementMax I of s has its Splat on the left only.
SplatOnTheLeft(s, I) ==
  I.k = "ElementMax" /\ SplatIsSoleWriter(s, I.ops[2][1]) /\ ~SplatIsSoleWriter(s, I.ops[3][1])

\* C20, the rewrite: performPeepholeOptimizations replaces, where it is, an
\* ElementMax(dest, L, R) whose L has a Splat for sole writer and whose R has
\* not by ElementMax(dest, R, L), and leaves any other ElementMax unchanged.
ElementMaxRewrite ==
  Visited("ElementMax") =>
    LET s == before.stream
        cur == before.pos
    IN IF SplatOnTheLeft(s, s[cur])
       THEN stream = [s EXCEPT ![cur] = ElementMax(@.ops[1][1], @.ops[3][1], @.ops[2][1])]
       ELSE stream = s

\* C20: the rewrite, and after performPeepholeOptimizations no ElementMax of
\* the stream has a left operand that a Splat alone writes and a right
\* operand for which this is not so.
ElementMaxCanonicalForm ==
  /\ ElementMaxRewrite
  /\ (before.pc \in {"peephole1", "peephole2"} /\ pc \in {"share", "dda2"}) =>
       \A i \in DOMAIN stream : ~SplatOnTheLeft(stream, stream[i])

-----------------------------------------------------------------------------
(* shareBuffers *)

\* C21: shareBuffers keeps I2. When every use of an allocation lies between
\* its AllocActivation and its DeallocActivation before an iteration of the
\* loop of shareBuffers, and every operand resolves to a weight or to an
\* allocation of the stream, the same holds after the iteration, hence after
\* the pass; this even when every allocation is deallocated.
SharingKeepsLifetimes ==
  (before.pc = "share" /\ pc \in {"share", "dda1"}
     /\ I2(before.stream) /\ ~Dangling(before.stream) /\ AllFreed(before.stream))
    => I2(stream)

\* The operand references a weight or a tensor view whose origin is a weight.
OfWeight(s, v) == getOrigin(s, v) \in Weights

\* C22: buffer sharing never touches the weights. An iteration of the loop
\* of shareBuffers leaves every operand that references a weight, or a
\* tensor view of a weight, as it is, and rewires no operand to a weight or
\* to a tensor view of a weight.
SharingLeavesWeights ==
  (before.pc = "share" /\ pc \in {"share", "dda1"}) =>
    /\ Len(stream) = Len(before.stream)
    /\ \A i \in DOMAIN before.stream : \A j \in DOMAIN before.stream[i].ops :
         LET old == before.stream[i].ops[j][1]
             new == stream[i].ops[j][1]
         IN new # old => ~OfWeight(before.stream, old) /\ ~OfWeight(before.stream, new)

\* The allocations that instruction I of s references through an operand of
\* the given kind.
OriginsOf(s, I, kind) ==
  {getAllocationOrigin(s, I.ops[j][1]) : j \in {j \in DOMAIN I.ops : I.ops[j][2] = kind}}
    \ {NoValue}

\* The values an iteration of the loop of shareBuffers rewired, and the
\* values it rewired them to.
Rewired ==
  UNION {UNION {{before.stream[i].ops[j][1], stream[i].ops[j][1]} :
                  j \in {j \in DOMAIN stream[i].ops :
                           stream[i].ops[j][1] # before.stream[i].ops[j][1]}} :
           i \in DOMAIN stream}

\* C23: in shareBuffers an allocation that instruction I both writes through
\* an Out operand and reads through an In operand is in the live set when
\* the in-place attempt for I runs, whether or not it was live before, and
\* is neither the dest nor the src of a rewrite at I.
SelfReadIsLive ==
  (before.pc = "share" /\ pc = "share" /\ before.pos >= 1) =>
    LET s == before.stream
        I == s[before.pos]
    IN \A a \in OriginsOf(s, I, "Out") \cap OriginsOf(s, I, "In") :
         /\ a \in killOutputs(s, I, 1, before.live, {})
         /\ \A v \in Rewired : getAllocationOrigin(s, v) # a

-----------------------------------------------------------------------------
(* The instruction numbers of calculateLiveIntervals *)

\* The positions of the instructions, other than deallocations, that have
\* loc as an operand, and of those that write it.
ReferencesOf(s, loc) ==
  {i \in DOMAIN s : s[i].k # "DeallocActivation" /\ SortedOperands(s[i], loc) # <<>>}
WritesOf(s, loc) ==
  {i \in ReferencesOf(s, loc) : KindCount(s[i], loc, "Out") > 0}

\* The positions at which an interval of loc begins.
BeginsOf(s, loc) ==
  IF ReferencesOf(s, loc) = {} THEN {}
  ELSE {Min(ReferencesOf(s, loc))} \cup WritesOf(s, loc)

Begins(ivs) == {ivs[n][1] : n \in DOMAIN ivs}
Ends(ivs) == {ivs[n][2] : n \in DOMAIN ivs}

\* The statement of C24 as the text has it: the number of an instruction is
\* the number of the instructions before it that are no deallocations.
IndexSkipsDeallocs ==
  (pc = "copyloop" /\ pos = 1) =>
    \A loc \in Allocs \cup Weights :
      (loc \in Allocs \/ mut[loc] # "Constant") =>
        Begins(IntervalsMap[loc]) = {NonDeallocsBefore(stream, i) : i \in BeginsOf(stream, loc)}

\* C24: the instruction numbers of calculateLiveIntervals count every
\* instruction of the stream, the deallocations too, which open and extend
\* no interval: an interval begins at the number of instructions before the
\* first reference of its location or before a write to it, and ends at the
\* number of instructions before a reference, or at the end of the stream.
\* copyPropagation and replaceAllUsesWith count in the same way: a rewrite of
\* Case B changes instructions of an interval of the source that holds the
\* copy, and no other.
IndexCountsDeallocs ==
  /\ (pc = "copyloop" /\ pos = 1) =>
       \A loc \in Allocs \cup Weights :
         (loc \in Allocs \/ mut[loc] # "Constant") =>
           /\ Begins(IntervalsMap[loc]) = {i - 1 : i \in BeginsOf(stream, loc)}
           /\ Ends(IntervalsMap[loc]) \subseteq
                {i - 1 : i \in ReferencesOf(stream, loc)} \cup {Len(stream)}
  /\ (before.pc = "copyloop" /\ pc \in {"copyloop", "abort"} /\ pos = before.pos + 1
        /\ before.stream[before.pos].k = "Copy"
        /\ before.stream[before.pos].ops[2][1] \in Allocs) =>
       LET Src == before.stream[before.pos].ops[2][1]
       IN \A p \in DOMAIN stream :
            stream[p] # before.stream[p] =>
              \E n \in Enclosing(IntervalsMap[Src], before.pos - 1) :
                IntervalsMap[Src][n][1] <= p - 1 /\ p - 1 <= IntervalsMap[Src][n][2]

\* The intervals have been computed on a stream in which a deallocation
\* comes before the instruction at which an interval of another allocation
\* begins, and a later copy has been propagated within its interval.
IndexCountsDeallocsWitness ==
  /\ pc = "copyloop"
  /\ stream # before.stream
  /\ \E loc \in Allocs : \E n \in DOMAIN IntervalsMap[loc] : \E q \in DOMAIN stream :
       /\ stream[q].k = "DeallocActivation"
       /\ q - 1 < IntervalsMap[loc][n][1]

\* The intervals of ivs that begin at instruction number n.
BeginningAt(ivs, n) == {m \in DOMAIN ivs : ivs[m][1] = n}

\* The instruction at position i reads loc, which an earlier instruction
\* has referenced.
ReadsAgain(s, loc, i) ==
  /\ i \in ReferencesOf(s, loc)
  /\ i # Min(ReferencesOf(s, loc))
  /\ KindCount(s[i], loc, "In") + KindCount(s[i], loc, "InOut") > 0

\* C25: in calculateLiveIntervals the reads of a location by an instruction
\* come before its writes by the same instruction, whatever the order of the
\* operands. When instruction number n reads a location that an earlier
\* instruction has referenced, the interval that was open before n reaches
\* n, and the intervals that begin at n are as many as the Out operands of
\* the instruction on that location: none for a read or an InOut alone.
ReadsBeforeWrites ==
  (pc = "copyloop" /\ pos = 1) =>
    \A loc \in Allocs \cup Weights :
      (loc \in Allocs \/ mut[loc] # "Constant") =>
        \A i \in DOMAIN stream :
          ReadsAgain(stream, loc, i) =>
            LET ivs == IntervalsMap[loc]
            IN /\ \E m \in DOMAIN ivs : ivs[m][1] < i - 1 /\ i - 1 <= ivs[m][2]
               /\ Cardinality(BeginningAt(ivs, i - 1)) = KindCount(stream[i], loc, "Out")

\* The intervals have been computed on a stream in which an instruction
\* has a location, which an earlier instruction has written, as an Out
\* operand and then as an In operand.
ReadsBeforeWritesWitness ==
  /\ pc = "copyloop"
  /\ pos = 1
  /\ \E loc \in Allocs : \E i \in DOMAIN stream :
       /\ ReadsAgain(stream, loc, i)
       /\ Head(UnsortedOperands(stream[i], loc)) = "Out"
       /\ KindCount(stream[i], loc, "In") > 0
       /\ Len(IntervalsMap[loc]) >= 2

-----------------------------------------------------------------------------
(* The assertions of Case B of copyPropagation *)

\* The last step was the iteration of copyPropagation at a copy between
\* values of one type whose source is no weight.
CaseBAt(p) ==
  /\ before.pc = "copyloop"
  /\ pc \in {"copyloop", "abort"}
  /\ before.pos = p
  /\ p \in DOMAIN before.stream
  /\ before.stream[p].k = "Copy"
  /\ before.stream[p].ops[2][1] \notin Weights
  /\ TypeOf(before.stream, before.stream[p].ops[2][1])
       = TypeOf(before.stream, before.stream[p].ops[1][1])

-----------------------------------------------------------------------------
(* deleteDeadAllocs *)

\* Every user of v is a tensor view whose users are such views again, at most
\* n deep: no instruction but a view reads or writes through v.
RECURSIVE OnlyUnusedViews(_, _, _)
OnlyUnusedViews(s, v, n) ==
  \A u \in Uses(s, v) :
    /\ s[u[1]].k = "TensorView"
    /\ n > 0
    /\ OnlyUnusedViews(s, s[u[1]].id, n - 1)

\* The allocations whose users are their deallocation and unused views.
UnusedAllocs(s) ==
  {a \in Allocs :
     /\ AllocsOf(s, a) # {}
     /\ \A u \in Uses(s, a) :
          \/ s[u[1]].k = "DeallocActivation"
          \/ s[u[1]].k = "TensorView" /\ OnlyUnusedViews(s, s[u[1]].id, Len(s))}

\* C27: after one call of deleteDeadAllocs no TensorView without users is
\* left, also when the stream had a view of a view of which the last was
\* unused, and every AllocActivation whose only users were such views and
\* its deallocation has gone, with its deallocation, in that call.
UnusedViewsAndAllocsDeleted ==
  (before.pc \in {"dda1", "dda2", "dda3"} /\ pc \in {"hoist", "dse", "instrument"}) =>
    /\ deadViews(stream) = {}
    /\ \A a \in UnusedAllocs(before.stream) :
         /\ AllocsOf(stream, a) = {}
         /\ \A d \in Deallocs(stream) : Deallocated(stream, d) # a

-----------------------------------------------------------------------------
(* The termination of performPeepholeOptimizations *)

\* C28: performPeepholeOptimizations terminates. The scan goes on at the
\* instruction a rewrite has put in the stream, and yet no run of the pass
\* rewrites for ever: an ElementMax whose operands were swapped is not
\* swapped back, and the TensorView and the Copy that replace a Reshape or a
\* Transpose are not rewritten into an instruction the pass rewrites again.
\* Every run of the pass reaches the pass that follows it.
PeepholeTerminates == (pc = "peephole1") ~> (pc = "share")

\* The pass has ended on a stream in which it swapped the operands of an
\* ElementMax and replaced a Reshape by a TensorView and a Copy.
PeepholeTerminatesWitness ==
  /\ pc = "share"
  /\ \E i \in DOMAIN stream : \E j \in DOMAIN input :
       /\ stream[i].k = "ElementMax"
       /\ input[j].k = "ElementMax"
       /\ stream[i].ops[2][1] = input[j].ops[3][1]
       /\ stream[i].ops[3][1] = input[j].ops[2][1]
       /\ stream[i].ops[2][1] # stream[i].ops[3][1]
  /\ \E j \in DOMAIN input : input[j].k = "Reshape"
  /\ \A i \in DOMAIN stream : stream[i].k # "Reshape"

-----------------------------------------------------------------------------
(* Event *)

InSignal(t) ==
  ip[t] \in {"signal_lock", "signal_test", "signal_set", "signal_unlock", "signal_notify"}
InWait(t) == ip[t] \in {"wait_lock", "wait_test", "wait_blocked", "wait_relock"}

\* The calls of signal() that have set fired_ and have not returned yet.
Firing == {t \in Threads : ip[t] \in {"signal_unlock", "signal_notify"}}

\* Of the calls of signal() made so far one at most has returned true or
\* will; every call that returned false found fired_ set; and when a call
\* has returned and none is under way, one call has returned true.
OneSignalWins ==
  /\ signalled + Cardinality(Firing) = (IF fired_ THEN 1 ELSE 0)
  /\ refused > 0 => fired_
  /\ (signalled + refused > 0 /\ \A t \in Threads : ~InSignal(t)) => signalled = 1

\* C29: signal() is one-shot. Whatever the number of threads that call
\* signal() on one Event and however their steps interleave, one call
\* returns true and every other returns false, and fired_, once true, is
\* never false again.
SignalIsOneShot == []OneSignalWins /\ [][fired_ => fired_']_vars

\* Three calls of signal() have returned, one of them true, the other two
\* false.
SignalIsOneShotWitness ==
  /\ signalled = 1
  /\ refused >= 2
  /\ \A t \in Threads : ~InSignal(t)

\* C30: wait() loses no wakeup. Whatever the interleaving, a wait() returns
\* only when fired_ is true; a wait() that begins after a signal() has
\* returned true returns without blocking; and, the threads being scheduled
\* fairly, once a thread has called signal() every wait() under way returns,
\* although notify_all() is called after the mutex is released.
NoLostWakeup ==
  /\ [](waited # {} => fired_)
  /\ [](late \cap blocked = {})
  /\ \A t \in Threads :
       (InWait(t) /\ (fired_ \/ \E u \in Threads : InSignal(u))) ~> ~InWait(t)

\* A wait() that blocked before fired_ was set has returned, and so has one
\* that began after signal() had returned true; each of two further threads
\* is in a call of signal() or has made one.
NoLostWakeupWitness ==
  /\ \E t \in waited : t \in blocked
  /\ \E t \in waited : t \in late
  /\ signalled = 1

====
